---- MODULE Spec2Model ----
(***************************************************************************)
(* A model of the procurement decision pipeline of procurement_agent:      *)
(* tools.py (store_site_rules, retrieve_site_rules, fetch_vendors,         *)
(* filter_vendors, place_order, confirm_order) over the persistence        *)
(* helpers of memory.py (read_json, write_json, log_decision).             *)
(*                                                                         *)
(* Strings are sequences of one-character strings, so that str.strip()     *)
(* and str.lower() are computed and not assumed.  A Python float is a      *)
(* pair of 53 mantissa bits and a binary exponent, so that int / int,      *)
(* float * 100 and round(x, 1) are computed bit by bit as IEEE-754         *)
(* doubles.  The timestamp of an audit entry (the wall clock) is left out. *)
(***************************************************************************)
EXTENDS Integers, Sequences, FiniteSets, TLC

\* ------------------------------------------------------------------ bounds

\* The number of tool calls of one session.
MaxCalls == 3

\* The longest vendor list handed to filter_vendors.
MaxVendors == 3

\* ----------------------------------------------------------------- strings

Whitespace == {" ", "\t"}

UpperToLower ==
    [c \in {"A", "B", "C", "O", "S", "U"} |->
        CASE c = "A" -> "a" [] c = "B" -> "b" [] c = "C" -> "c"
          [] c = "O" -> "o" [] c = "S" -> "s" [] c = "U" -> "u"]

\* The sequence s without its first n elements.
Drop(s, n) == SubSeq(s, n + 1, Len(s))

RECURSIVE LStrip(_)
LStrip(s) ==
    IF s # <<>> /\ Head(s) \in Whitespace THEN LStrip(Tail(s)) ELSE s

RECURSIVE RStrip(_)
RStrip(s) ==
    IF s # <<>> /\ s[Len(s)] \in Whitespace
    THEN RStrip(SubSeq(s, 1, Len(s) - 1))
    ELSE s

\* Variant of Strip that leaves the string as it is.
StripNothing(s) == s

\* str.strip(): without the leading and trailing whitespace.
Strip(s) == RStrip(LStrip(s))

\* str.lower()
Lower(s) ==
    [i \in 1..Len(s) |->
        IF s[i] \in DOMAIN UpperToLower THEN UpperToLower[s[i]] ELSE s[i]]

\* The key under which the orders list is kept in memory_store.json.
OrdersKey == <<"o", "r", "d", "e", "r", "s">>

\* The name filter_vendors gives a vendor that has none.
UnknownName == <<"U", "n", "k", "n", "o", "w", "n">>

\* The category fetch_vendors reports for a vendor that has none.
UnknownCategory == <<"u", "n", "k", "n", "o", "w", "n">>

\* ------------------------------------------------- floats (IEEE-754 double)

\* A positive double is [bits |-> 53 bits, most significant first and 1,
\* exp |-> e]: the value is (the integer the bits spell) * 2^e.

MantissaBits == 53

Zeros(n) == [i \in 1..n |-> 0]

AnyOne(bits) == \E i \in 1..Len(bits) : bits[i] = 1

\* The integer a bit string spells (halving, to keep the recursion shallow).
RECURSIVE BitsToInt(_)
BitsToInt(bits) ==
    IF bits = <<>> THEN 0
    ELSE IF Len(bits) = 1 THEN bits[1]
    ELSE LET h == Len(bits) \div 2
         IN  BitsToInt(SubSeq(bits, 1, h)) * 2 ^ (Len(bits) - h)
             + BitsToInt(Drop(bits, h))

\* The n bits of v, most significant first, for 0 <= v < 2^n.
IntToBits(v, n) == [i \in 1..n |-> (v \div 2 ^ (n - i)) % 2]

\* Without the leading zeros (one bit is kept).
TrimZeros(bits) ==
    IF AnyOne(bits)
    THEN Drop(bits, (CHOOSE i \in 1..Len(bits) :
                        bits[i] = 1 /\ \A j \in 1..(i - 1) : bits[j] = 0) - 1)
    ELSE <<0>>

\* bits + 1 at the same width; carry = 1 when the bits were all ones (the sum
\* is then 1 followed by zeros, one binary place higher).
IncBits(bits) ==
    IF \A i \in 1..Len(bits) : bits[i] = 1
    THEN [bits |-> <<1>> \o Zeros(Len(bits) - 1), carry |-> 1]
    ELSE LET k == CHOOSE i \in 1..Len(bits) :
                      bits[i] = 0 /\ \A j \in (i + 1)..Len(bits) : bits[j] = 1
         IN  [bits |-> [i \in 1..Len(bits) |->
                           IF i < k THEN bits[i] ELSE IF i = k THEN 1 ELSE 0],
              carry |-> 0]

\* A multiplication is worked in chunks of 16 bits: the chunks of bits * m
\* from chunk j down to the first, most significant first, behind the carry
\* that leaves the first: <<carry, chunks>>.
RECURSIVE MulChunks(_, _, _, _)
MulChunks(padded, m, j, carry) ==
    LET c == BitsToInt(SubSeq(padded, 16 * (j - 1) + 1, 16 * j))
        t == c * m + carry
    IN  IF j = 0 THEN <<carry, <<>>>>
        ELSE LET up == MulChunks(padded, m, j - 1, t \div 65536)
             IN  <<up[1], up[2] \o IntToBits(t % 65536, 16)>>

\* The carry and the chunks of a product as one bit string.
JoinChunks(r) == TrimZeros(IntToBits(r[1], 16) \o r[2])

\* The bits of (the integer bits spell) * m, for 0 < m < 65536.
MulSmall(bits, m) ==
    LET n == (Len(bits) + 16 - 1) \div 16
    IN  JoinChunks(MulChunks(Zeros(n * 16 - Len(bits)) \o bits, m, n, 0))

\* Round to nearest, ties to even: whether the kept part is incremented, from
\* the first dropped bit, whether a later dropped bit is set, and whether the
\* kept part is odd.
RoundUp(guard, sticky, odd) == guard = 1 /\ (sticky \/ odd)

\* The double nearest to (the integer bits spell) * 2^exp.
RoundTo53(bits, exp) ==
    IF Len(bits) <= MantissaBits
    THEN [bits |-> bits \o Zeros(MantissaBits - Len(bits)),
          exp |-> exp - (MantissaBits - Len(bits))]
    ELSE LET keep == SubSeq(bits, 1, MantissaBits)
             rest == Drop(bits, MantissaBits)
             e == exp + Len(rest)
         IN  IF RoundUp(rest[1], AnyOne(Tail(rest)), keep[MantissaBits] = 1)
             THEN LET r == IncBits(keep)
                  IN  [bits |-> r.bits, exp |-> e + r.carry]
             ELSE [bits |-> keep, exp |-> e]

\* The next k quotient bits of a long division by d that has remainder r
\* (r < d), and the remainder after them: <<bits, remainder>>; k is a
\* multiple of 4 (the division is worked four bits at a step).
RECURSIVE QuotientBits(_, _, _)
QuotientBits(r, d, k) ==
    IF k = 0 THEN <<<<>>, r>>
    ELSE LET t == r * 16
             rest == QuotientBits(t % d, d, k - 4)
         IN  <<IntToBits(t \div d, 4) \o rest[1], rest[2]>>

\* n, d and e with o / l = (n / d) * 2^e and d <= n < 2d.
RECURSIVE Normalise(_, _, _)
Normalise(n, d, e) ==
    IF n < d THEN Normalise(2 * n, d, e - 1)
    ELSE IF n >= 2 * d THEN Normalise(n, 2 * d, e + 1)
    ELSE [n |-> n, d |-> d, e |-> e]

\* The double nearest to a quotient, from its first 53 bits, the remainder r
\* of the division by d, and the exponent e of the last bit.
RoundQuotient(bits, r, d, e) ==
    IF RoundUp(IF 2 * r >= d THEN 1 ELSE 0, 2 * r > d, bits[MantissaBits] = 1)
    THEN [bits |-> IncBits(bits).bits, exp |-> e + IncBits(bits).carry]
    ELSE [bits |-> bits, exp |-> e]

\* The quotient n / d * 2^e of normalised n and d as a double.
DivNormalised(nd) ==
    LET q == QuotientBits(nd.n - nd.d, nd.d, MantissaBits - 1)
    IN  RoundQuotient(<<1>> \o q[1], q[2], nd.d, nd.e - (MantissaBits - 1))

\* int / int for o > 0 and l > 0: the correctly rounded quotient.
TrueDiv(o, l) == DivNormalised(Normalise(o, l, 0))

\* x * 100 for a double x: the exact product, rounded to a double.
Times100(x) == RoundTo53(MulSmall(x.bits, 100), x.exp)

\* The integer nearest to (the integer n spells) / 2^s, a tie going to the
\* even one.
RoundShifted(n, s) ==
    LET ip == IF s >= Len(n) THEN <<>> ELSE SubSeq(n, 1, Len(n) - s)
        fr == IF s > Len(n) THEN Zeros(s - Len(n)) \o n
              ELSE Drop(n, Len(n) - s)
        t == BitsToInt(ip)
    IN  IF fr # <<>> /\ RoundUp(fr[1], AnyOne(Tail(fr)), t % 2 = 1)
        THEN t + 1
        ELSE t

\* round(x, 1) for a double x with x.exp <= 0, in tenths: the integer nearest
\* to 10 * x, a tie going to the even one.
RoundTenths(x) == RoundShifted(MulSmall(x.bits, 10), 0 - x.exp)

\* round((overage / approval_limit) * 100, 1) in tenths of a percent, for
\* overage > 0 and approval_limit # 0 (a negative limit gives the negated
\* percentage: the rounding is symmetric).
Percentage(overage, approval_limit) ==
    (IF approval_limit > 0 THEN 1 ELSE 0 - 1)
    * RoundTenths(Times100(TrueDiv(overage,
          IF approval_limit > 0 THEN approval_limit ELSE 0 - approval_limit)))

\* ------------------------------------------------------ JSON and the files

\* A JSON object is a function from its keys; this is {}.
EmptyDict == <<>>

\* d[k] = v
Put(d, k, v) == [x \in DOMAIN d \cup {k} |-> IF x = k THEN v ELSE d[x]]

\* d.get(k, default)
Get(d, k, default) == IF k \in DOMAIN d THEN d[k] ELSE default

\* The two kinds of value memory_store.json holds under a key: the rules of a
\* site (a JSON object) and the orders (a JSON array).
RulesValue(approval_limit, vendor_blacklist) ==
    [type |-> "dict", approval_limit |-> approval_limit,
     vendor_blacklist |-> vendor_blacklist]

ListValue(items) == [type |-> "list", items |-> items]

\* What one call meets in its environment: whether the read and the write of
\* memory_store.json succeed, and which of its audit appends (the first, the
\* second, ...) fail.
IoOk == [read |-> TRUE, write |-> TRUE, auditFail |-> {}]

\* read_json: the content of the file, {} when it cannot be read.
ReadJson(file, ok) == IF ok THEN file ELSE EmptyDict

\* What a file may be besides a JSON object: not there ("missing"), not to
\* be opened ("unreadable": no permission, a directory), text that is no JSON
\* ("corrupt"), JSON that is no object ("nondict"), or bytes that are no
\* UTF-8 text ("undecodable").
FileFaults == {"missing", "unreadable", "corrupt", "nondict", "undecodable"}

Faulty(kind) == [fault |-> kind]

IsFaulty(file) == DOMAIN file = {"fault"}

\* read_json catches json.JSONDecodeError and OSError; the UnicodeDecodeError
\* of json.load on bytes that are no UTF-8 text is neither.
ReadRaises(file) == IsFaulty(file) /\ file.fault = "undecodable"

\* read_json of a file as it is: its content when it holds a JSON object, {}
\* otherwise.
ReadFile(file) == IF IsFaulty(file) THEN EmptyDict ELSE file

\* The file after read_json: one that was missing has been created as {}.
AfterRead(file) ==
    IF IsFaulty(file) /\ file.fault = "missing" THEN EmptyDict ELSE file

\* Variant of LogDecision that puts the newest entry first.
LogDecisionNewestFirst(log, event_type, site_name, details, ok) ==
    IF ok
    THEN <<[event_type |-> event_type, site_name |-> site_name,
            details |-> details]>> \o log
    ELSE log

\* log_decision: one entry appended to audit_log.jsonl; a failure is swallowed.
LogDecision(log, event_type, site_name, details, ok) ==
    IF ok
    THEN Append(log, [event_type |-> event_type, site_name |-> site_name,
                      details |-> details])
    ELSE log

\* What a tool call raises instead of returning.
Raised(exc) == [marker |-> "RAISED", exception |-> exc]

\* write_json that fails: io.cause tells where.  open(path, "w") that fails
\* leaves the file as it was; a failure after it (in json.dump) leaves the
\* file truncated, which every later read_json reads as {}.
AfterFailedWrite(file, io) == IF io.cause = "dump" THEN EmptyDict ELSE file

\* Variant of WriteError for a write_json that lets the exception through.
WriteErrorRaised(what, io) == Raised("OSError")

\* The string a tool returns when write_json gave an error string: "Error
\* saving rules: ..." or "Error saving order: ...", the cause behind it.
WriteError(what, io) == [marker |-> "Error", error |-> what, cause |-> io.cause]

\* ------------------------------------------------------- store_site_rules

MapStrip(names) == [i \in 1..Len(names) |-> Strip(names[i])]

\* Variant of StoreSiteRules that stores the blacklist as given.
StoreSiteRulesUntrimmed(st, site_name, approval_limit, vendor_blacklist, io) ==
    LET site_key == Strip(site_name)
        data == ReadJson(st.store, io.read)
        rules == RulesValue(approval_limit, vendor_blacklist)
    IN  IF site_key = <<>>
        THEN [store |-> st.store, audit |-> st.audit,
              ret |-> [marker |-> "Error", error |-> "validation"]]
        ELSE IF ~io.write
        THEN [store |-> AfterFailedWrite(st.store, io), audit |-> st.audit,
              ret |-> WriteError("saving rules", io)]
        ELSE [store |-> Put(data, site_key, rules),
              audit |-> LogDecision(st.audit, "rules_stored", site_key,
                            [approval_limit |-> approval_limit,
                             vendor_blacklist |-> rules.vendor_blacklist],
                            1 \notin io.auditFail),
              ret |-> [marker |-> "Rules stored", site |-> site_key,
                       approval_limit |-> approval_limit,
                       vendor_blacklist |-> vendor_blacklist]]

\* Variant of StoreSiteRules that adds the blacklist to the one the site has.
StoreSiteRulesAccumulate(st, site_name, approval_limit, vendor_blacklist, io) ==
    LET site_key == Strip(site_name)
        data == ReadJson(st.store, io.read)
        had == Get(data, site_key, ListValue(<<>>))
        kept == IF had.type = "dict" THEN had.vendor_blacklist ELSE <<>>
        rules == RulesValue(approval_limit, kept \o MapStrip(vendor_blacklist))
    IN  IF site_key = <<>>
        THEN [store |-> st.store, audit |-> st.audit,
              ret |-> [marker |-> "Error", error |-> "validation"]]
        ELSE IF ~io.write
        THEN [store |-> AfterFailedWrite(st.store, io), audit |-> st.audit,
              ret |-> WriteError("saving rules", io)]
        ELSE [store |-> Put(data, site_key, rules),
              audit |-> LogDecision(st.audit, "rules_stored", site_key,
                            [approval_limit |-> approval_limit,
                             vendor_blacklist |-> rules.vendor_blacklist],
                            1 \notin io.auditFail),
              ret |-> [marker |-> "Rules stored", site |-> site_key,
                       approval_limit |-> approval_limit,
                       vendor_blacklist |-> vendor_blacklist]]

StoreSiteRules(st, site_name, approval_limit, vendor_blacklist, io) ==
    LET site_key == Strip(site_name)
        data == ReadJson(st.store, io.read)
        rules == RulesValue(approval_limit, MapStrip(vendor_blacklist))
    IN  IF site_key = <<>>
        THEN [store |-> st.store, audit |-> st.audit,
              ret |-> [marker |-> "Error", error |-> "validation"]]
        ELSE IF ~io.write
        THEN [store |-> AfterFailedWrite(st.store, io), audit |-> st.audit,
              ret |-> WriteError("saving rules", io)]
        ELSE [store |-> Put(data, site_key, rules),
              audit |-> LogDecision(st.audit, "rules_stored", site_key,
                            [approval_limit |-> approval_limit,
                             vendor_blacklist |-> rules.vendor_blacklist],
                            1 \notin io.auditFail),
              ret |-> [marker |-> "Rules stored", site |-> site_key,
                       approval_limit |-> approval_limit,
                       vendor_blacklist |-> vendor_blacklist]]

\* ---------------------------------------------------- retrieve_site_rules

NoRules == [type |-> "none"]

\* Variant of RetrieveSiteRules that looks the name up as it was given.
RetrieveSiteRulesRawKey(st, site_name, io) ==
    LET site_key == Strip(site_name)
        rules == Get(ReadJson(st.store, io.read), site_name, NoRules)
    IN  [store |-> st.store, audit |-> st.audit,
         ret |-> IF site_key = <<>>
                 THEN [marker |-> "error", error |-> "validation"]
                 ELSE IF rules.type = "dict"
                 THEN [marker |-> "rules",
                       value |-> [approval_limit |-> rules.approval_limit,
                                  vendor_blacklist |-> rules.vendor_blacklist]]
                 ELSE [marker |-> "error", error |-> "not_found",
                       site |-> site_key]]

RetrieveSiteRules(st, site_name, io) ==
    LET site_key == Strip(site_name)
        rules == Get(ReadJson(st.store, io.read), site_key, NoRules)
    IN  [store |-> st.store, audit |-> st.audit,
         ret |-> IF site_key = <<>>
                 THEN [marker |-> "error", error |-> "validation"]
                 ELSE IF rules.type = "dict"
                 THEN [marker |-> "rules",
                       value |-> [approval_limit |-> rules.approval_limit,
                                  vendor_blacklist |-> rules.vendor_blacklist]]
                 ELSE [marker |-> "error", error |-> "not_found",
                       site |-> site_key]]

\* ------------------------------------------------------------ fetch_vendors

\* v.get("category", default), v.get("name", "Unknown") and
\* v.get("price_per_100_bags_inr", 0) of a vendor dict.
VCategory(v, default) == IF "category" \in DOMAIN v THEN v.category ELSE default

VName(v) == IF "name" \in DOMAIN v THEN v.name ELSE UnknownName

VPrice(v) ==
    IF "price_per_100_bags_inr" \in DOMAIN v
    THEN v.price_per_100_bags_inr
    ELSE 0

FetchVendors(st, material, io) ==
    LET data == ReadFile(st.catalog)
        all_vendors == IF "vendors" \in DOMAIN data THEN data.vendors ELSE <<>>
        material_lower == Lower(Strip(material))
        matched == SelectSeq(all_vendors,
                       LAMBDA v : Lower(VCategory(v, <<>>)) = material_lower)
        available == {VCategory(all_vendors[i], UnknownCategory) :
                         i \in 1..Len(all_vendors)}
    IN  IF ReadRaises(st.catalog)
        THEN [store |-> st.store, audit |-> st.audit,
              catalog |-> st.catalog, ret |-> Raised("UnicodeDecodeError")]
        ELSE [store |-> st.store,
              audit |-> IF matched = <<>>
                        THEN LogDecision(st.audit, "vendor_rejected", <<>>,
                                 [reason |-> "No vendors found for material",
                                  material |-> material,
                                  available_categories |-> available],
                                 1 \notin io.auditFail)
                        ELSE st.audit,
              catalog |-> AfterRead(st.catalog),
              ret |-> [marker |-> "vendors", value |-> matched]]

\* ----------------------------------------------------------- filter_vendors

\* Variant of InsertByPrice that puts a vendor before those of its own price.
InsertBeforeEqual(sorted, v) ==
    LET k == Cardinality({i \in 1..Len(sorted) : VPrice(sorted[i]) < VPrice(v)})
    IN  SubSeq(sorted, 1, k) \o <<v>> \o Drop(sorted, k)

\* v put into a list sorted by price, behind the vendors of its own price.
InsertByPrice(sorted, v) ==
    LET k == Cardinality({i \in 1..Len(sorted) : VPrice(sorted[i]) <= VPrice(v)})
    IN  SubSeq(sorted, 1, k) \o <<v>> \o Drop(sorted, k)

\* list.sort(key = price): ascending and stable.
RECURSIVE SortByPrice(_)
SortByPrice(vendors) ==
    IF vendors = <<>> THEN <<>>
    ELSE InsertByPrice(SortByPrice(SubSeq(vendors, 1, Len(vendors) - 1)),
                       vendors[Len(vendors)])

\* Variant of Cheapest that takes the last entry of the lowest price.
CheapestLast(entries) ==
    entries[CHOOSE i \in 1..Len(entries) :
                /\ \A j \in 1..Len(entries) : entries[i].price <= entries[j].price
                /\ \A j \in (i + 1)..Len(entries) :
                      entries[j].price > entries[i].price]

\* min(entries, key = price): the first entry of the lowest price.
Cheapest(entries) ==
    entries[CHOOSE i \in 1..Len(entries) :
                /\ \A j \in 1..Len(entries) : entries[i].price <= entries[j].price
                /\ \A j \in 1..(i - 1) : entries[j].price > entries[i].price]

BlacklistLower(blacklist) ==
    {Lower(Strip(blacklist[i])) : i \in 1..Len(blacklist)}

\* Variant of FilterStep that checks the budget before the blacklist.
FilterStepBudgetFirst(acc, v, blacklist_lower, budget, site_name, io) ==
    LET name == VName(v)
        price == VPrice(v)
        nth == Len(acc.rejected) + Len(acc.over_budget) + 1
    IN  IF price > budget
        THEN [acc EXCEPT
                 !.over_budget = Append(@, [vendor |-> name, price |-> price,
                                            reason |-> "exceeds budget",
                                            budget |-> budget]),
                 !.audit = LogDecision(@, "vendor_rejected", site_name,
                               [vendor |-> name, price |-> price,
                                reason |-> "exceeds budget", budget |-> budget],
                               nth \notin io.auditFail)]
        ELSE IF Lower(Strip(name)) \in blacklist_lower
        THEN [acc EXCEPT
                 !.rejected = Append(@, [vendor |-> name, price |-> price,
                                         reason |-> "Blacklisted for this site"]),
                 !.audit = LogDecision(@, "vendor_rejected", site_name,
                               [vendor |-> name, price |-> price,
                                reason |-> "Blacklisted for this site"],
                               nth \notin io.auditFail)]
        ELSE [acc EXCEPT !.eligible = Append(@, v)]

\* Variant of FilterStep without the continue of the blacklist branch: the
\* blacklisted vendor goes on to the budget check.
FilterStepNoContinue(acc, v, blacklist_lower, budget, site_name, io) ==
    LET name == VName(v)
        price == VPrice(v)
        nth == Len(acc.rejected) + Len(acc.over_budget) + 1
        a1 == IF Lower(Strip(name)) \in blacklist_lower
              THEN [acc EXCEPT
                       !.rejected = Append(@, [vendor |-> name, price |-> price,
                                               reason |-> "Blacklisted for this site"]),
                       !.audit = LogDecision(@, "vendor_rejected", site_name,
                                     [vendor |-> name, price |-> price,
                                      reason |-> "Blacklisted for this site"],
                                     nth \notin io.auditFail)]
              ELSE acc
    IN  IF price > budget
        THEN [a1 EXCEPT
                 !.over_budget = Append(@, [vendor |-> name, price |-> price,
                                            reason |-> "exceeds budget",
                                            budget |-> budget]),
                 !.audit = LogDecision(@, "vendor_rejected", site_name,
                               [vendor |-> name, price |-> price,
                                reason |-> "exceeds budget", budget |-> budget],
                               (Len(a1.rejected) + Len(a1.over_budget) + 1)
                                   \notin io.auditFail)]
        ELSE [a1 EXCEPT !.eligible = Append(@, v)]

\* One pass of the loop over the vendors: v goes to rejected, to over_budget
\* or to eligible, and a rejection or an over-budget vendor is logged.
FilterStep(acc, v, blacklist_lower, budget, site_name, io) ==
    LET name == VName(v)
        price == VPrice(v)
        nth == Len(acc.rejected) + Len(acc.over_budget) + 1
    IN  IF Lower(Strip(name)) \in blacklist_lower
        THEN [acc EXCEPT
                 !.rejected = Append(@, [vendor |-> name, price |-> price,
                                         reason |-> "Blacklisted for this site"]),
                 !.audit = LogDecision(@, "vendor_rejected", site_name,
                               [vendor |-> name, price |-> price,
                                reason |-> "Blacklisted for this site"],
                               nth \notin io.auditFail)]
        ELSE IF price > budget
        THEN [acc EXCEPT
                 !.over_budget = Append(@, [vendor |-> name, price |-> price,
                                            reason |-> "exceeds budget",
                                            budget |-> budget]),
                 !.audit = LogDecision(@, "vendor_rejected", site_name,
                               [vendor |-> name, price |-> price,
                                reason |-> "exceeds budget", budget |-> budget],
                               nth \notin io.auditFail)]
        ELSE [acc EXCEPT !.eligible = Append(@, v)]

\* The loop over the first n vendors.
RECURSIVE FilterLoop(_, _, _, _, _, _, _)
FilterLoop(vendors, n, log, blacklist_lower, budget, site_name, io) ==
    IF n = 0
    THEN [eligible |-> <<>>, rejected |-> <<>>, over_budget |-> <<>>,
          audit |-> log]
    ELSE FilterStep(FilterLoop(vendors, n - 1, log, blacklist_lower, budget,
                               site_name, io),
                    vendors[n], blacklist_lower, budget, site_name, io)

\* The diagnostic message of a result, [kind |-> "none"] when it has none.
FilterMessage(eligible, rejected, over_budget, budget) ==
    IF eligible = <<>> /\ over_budget = <<>> /\ rejected # <<>>
    THEN [kind |-> "all_blacklisted", count |-> Len(rejected)]
    ELSE IF eligible = <<>> /\ over_budget # <<>>
    THEN [kind |-> "all_over_budget", budget |-> budget,
          vendor |-> Cheapest(over_budget).vendor,
          price |-> Cheapest(over_budget).price]
    ELSE [kind |-> "none"]

\* The result dict: the three lists, and the message when there is one.
FilterResult(eligible, rejected, over_budget, message) ==
    IF message.kind = "none"
    THEN [eligible |-> eligible, rejected |-> rejected,
          over_budget |-> over_budget]
    ELSE [eligible |-> eligible, rejected |-> rejected,
          over_budget |-> over_budget, message |-> message]

\* What follows the loop: eligible sorted, the message, the result.
FilterFinish(st, loop, eligible, budget) ==
    [store |-> st.store, audit |-> loop.audit,
     ret |-> [marker |-> "filter_result",
              value |-> FilterResult(eligible, loop.rejected, loop.over_budget,
                            FilterMessage(eligible, loop.rejected,
                                          loop.over_budget, budget))]]

FilterSorted(st, loop, budget) ==
    FilterFinish(st, loop, SortByPrice(loop.eligible), budget)

FilterVendors(st, vendors, blacklist, budget, site_name, io) ==
    FilterSorted(st,
                 FilterLoop(vendors, Len(vendors), st.audit,
                            BlacklistLower(blacklist), budget, site_name, io),
                 budget)

\* --------------------------------------------------------------- place_order

Order(site_name, vendor_name, material, quantity, price, status) ==
    [site_name |-> site_name, vendor_name |-> vendor_name,
     material |-> material, quantity |-> quantity, price_inr |-> price,
     status |-> status]

\* The tail place_order and confirm_order share: the order appended to the
\* list under "orders", the store written back, and order_placed logged.
\* log is the audit trail so far; nth numbers the audit append of the call.
SaveOrder(st, order, approval, log, confirmation, io) ==
    LET data == ReadJson(st.store, io.read)
        orders == Get(data, OrdersKey, ListValue(<<>>))
        nth == IF approval = "auto" THEN 2 ELSE 1
    IN  IF orders.type # "list"
        THEN \* orders.append on a dict
             [store |-> st.store, audit |-> log,
              ret |-> Raised("AttributeError")]
        ELSE IF ~io.write
        THEN [store |-> AfterFailedWrite(st.store, io), audit |-> log,
              ret |-> WriteError("saving order", io)]
        ELSE [store |-> Put(data, OrdersKey,
                            ListValue(Append(orders.items, order))),
              audit |-> LogDecision(log, "order_placed", order.site_name,
                            [vendor |-> order.vendor_name,
                             price |-> order.price_inr,
                             quantity |-> order.quantity,
                             material |-> order.material,
                             approval |-> approval],
                            nth \notin io.auditFail),
              ret |-> confirmation]

\* approval_requested logged and the approval block returned.
ApprovalRequest(st, vendor_name, price, site_name, approval_limit, overage, percentage, log, io) ==
    [store |-> st.store,
     audit |-> LogDecision(log, "approval_requested", site_name,
                   [vendor |-> vendor_name, price |-> price,
                    approval_limit |-> approval_limit, overage |-> overage,
                    overage_pct |-> percentage],
                   2 \notin io.auditFail),
     ret |-> [marker |-> "APPROVAL_REQUIRED", vendor |-> vendor_name,
              cost |-> price, limit |-> approval_limit, overage |-> overage,
              overage_pct |-> percentage]]

\* Variant of Escalate that also saves the order.
EscalateAndSave(st, vendor_name, price, quantity, material, site_name, approval_limit, log, io) ==
    IF approval_limit = 0
    THEN [store |-> st.store, audit |-> log,
          ret |-> Raised("ZeroDivisionError")]
    ELSE SaveOrder(st, Order(site_name, vendor_name, material, quantity, price,
                             "confirmed"),
                   "auto", log,
                   [marker |-> "APPROVAL_REQUIRED", vendor |-> vendor_name,
                    cost |-> price, limit |-> approval_limit,
                    overage |-> price - approval_limit,
                    overage_pct |-> Percentage(price - approval_limit,
                                               approval_limit)],
                   io)

\* The over-budget branch of place_order: the overage and its percentage,
\* approval_requested logged, the approval block returned; nothing is saved.
Escalate(st, vendor_name, price, quantity, material, site_name, approval_limit, log, io) ==
    LET overage == price - approval_limit
    IN  IF approval_limit = 0
        THEN \* overage / approval_limit
             [store |-> st.store, audit |-> log,
              ret |-> Raised("ZeroDivisionError")]
        ELSE ApprovalRequest(st, vendor_name, price, site_name,
                             approval_limit, overage,
                             Percentage(overage, approval_limit), log, io)

\* The gate of place_order.
WithinLimit(price, approval_limit) == price <= approval_limit

\* Variant of PlaceOrder for a log_decision that lets the failure of the
\* vendor_selected append through.
PlaceOrderAuditRaises(st, vendor_name, price, quantity, material, site_name, approval_limit, io) ==
    IF 1 \in io.auditFail
    THEN [store |-> st.store, audit |-> st.audit, ret |-> Raised("OSError")]
    ELSE IF WithinLimit(price, approval_limit)
    THEN SaveOrder(st, Order(site_name, vendor_name, material, quantity,
                             price, "confirmed"),
                   "auto",
                   LogDecision(st.audit, "vendor_selected", site_name,
                       [vendor |-> vendor_name, price |-> price,
                        quantity |-> quantity, material |-> material],
                       TRUE),
                   [marker |-> "ORDER_CONFIRMED", quantity |-> quantity,
                    material |-> material, vendor |-> vendor_name,
                    price |-> price, within_limit |-> approval_limit],
                   io)
    ELSE Escalate(st, vendor_name, price, quantity, material, site_name,
                  approval_limit,
                  LogDecision(st.audit, "vendor_selected", site_name,
                      [vendor |-> vendor_name, price |-> price,
                       quantity |-> quantity, material |-> material],
                      TRUE),
                  io)

\* Variant of PlaceOrder that logs vendor_selected behind the gate, for an
\* order within the limit only.
PlaceOrderGateFirst(st, vendor_name, price, quantity, material, site_name, approval_limit, io) ==
    IF WithinLimit(price, approval_limit)
    THEN SaveOrder(st, Order(site_name, vendor_name, material, quantity,
                             price, "confirmed"),
                   "auto",
                   LogDecision(st.audit, "vendor_selected", site_name,
                       [vendor |-> vendor_name, price |-> price,
                        quantity |-> quantity, material |-> material],
                       1 \notin io.auditFail),
                   [marker |-> "ORDER_CONFIRMED", quantity |-> quantity,
                    material |-> material, vendor |-> vendor_name,
                    price |-> price, within_limit |-> approval_limit],
                   io)
    ELSE Escalate(st, vendor_name, price, quantity, material, site_name,
                  approval_limit, st.audit, io)

PlaceOrder(st, vendor_name, price, quantity, material, site_name, approval_limit, io) ==
    LET log == LogDecision(st.audit, "vendor_selected", site_name,
                   [vendor |-> vendor_name, price |-> price,
                    quantity |-> quantity, material |-> material],
                   1 \notin io.auditFail)
    IN  IF WithinLimit(price, approval_limit)
        THEN SaveOrder(st, Order(site_name, vendor_name, material, quantity,
                                 price, "confirmed"),
                       "auto", log,
                       [marker |-> "ORDER_CONFIRMED", quantity |-> quantity,
                        material |-> material, vendor |-> vendor_name,
                        price |-> price, within_limit |-> approval_limit],
                       io)
        ELSE Escalate(st, vendor_name, price, quantity, material, site_name,
                      approval_limit, log, io)

\* ------------------------------------------------------------- confirm_order

ConfirmOrder(st, vendor_name, price, quantity, material, site_name, io) ==
    SaveOrder(st, Order(site_name, vendor_name, material, quantity, price,
                        "confirmed_with_approval"),
              "human", st.audit,
              [marker |-> "ORDER_CONFIRMED", quantity |-> quantity,
               material |-> material, vendor |-> vendor_name,
               price |-> price, human_approved |-> TRUE],
              io)

\* -------------------------------------------------------------- the state

VARIABLES
    store,       \* the content of memory_store.json
    audit,       \* the entries of audit_log.jsonl, in write order
    catalog,     \* the content of mock_vendors.json
    call,        \* the tool call made last, with its arguments
    ret,         \* what that call returned (or raised)
    ncalls,      \* the number of tool calls made
    escalated,   \* history: the orders place_order has escalated and
                 \* confirm_order has not been called for since
    lastStored,  \* history: per site key, the rules of the last
                 \* store_site_rules call that succeeded
    procs,       \* the tool calls that run at the same time, each with its
                 \* position and the store content it has read (none in a
                 \* session that makes one call after the other)
    cli          \* the order command of the offline CLI: its position, its
                 \* inputs, the filter result, the vendor on offer and the
                 \* queue of the approval loop (idle when no command runs)

vars ==
    <<store, audit, catalog, call, ret, ncalls, escalated, lastStored, procs,
      cli>>

\* ------------------------------------------------------------- the inputs

Cement == <<"c", "e", "m", "e", "n", "t">>

Sand == <<"s", "a", "n", "d">>

Glass == <<"g", "l", "a", "s", "s">>

\* The vendor catalog of a session.
Catalog ==
    [vendors |->
        << [name |-> <<"a">>, category |-> Cement, price_per_100_bags_inr |-> 35],
           [name |-> <<"B">>, category |-> <<"C", "e", "m", "e", "n", "t">>,
            price_per_100_bags_inr |-> 45],
           [name |-> <<"c">>, category |-> Sand, price_per_100_bags_inr |-> 39],
           [name |-> <<"d">>, price_per_100_bags_inr |-> 10] >>]

SiteNames == {<<"s">>, <<" ", "s", "\t">>, <<"t">>, OrdersKey, <<" ">>}

RuleSets ==
    {[approval_limit |-> 80, vendor_blacklist |-> <<>>],
     [approval_limit |-> 100,
      vendor_blacklist |-> << <<" ", "B", "\t">>, <<"a">> >>]}

FetchMaterials == {<<" ", "C", "e", "m", "e", "n", "t", "\t">>, Glass}

OrderVendors == {<<"a">>, <<"B">>}

OrderPrices == {80, 103}

OrderLimits == {0, 80, 103}

OrderSites == {<<"s">>}

\* The filter_vendors calls of a session.
SessionFilterLists ==
    {<<>>,
     << Catalog.vendors[1], Catalog.vendors[2], Catalog.vendors[3] >>}

SessionFilterBlacklists == {<< <<" ", "A">> >>}

SessionFilterBudgets == {38, 100}

\* The inputs of filter_vendors when it is checked alone.
VendorPool ==
    {[name |-> <<"a">>, price_per_100_bags_inr |-> 35],
     [name |-> <<"a">>, price_per_100_bags_inr |-> 45],
     [name |-> <<"A", " ">>, price_per_100_bags_inr |-> 39],
     [name |-> <<"b">>, price_per_100_bags_inr |-> 35],
     [price_per_100_bags_inr |-> 39],
     [name |-> <<"c">>]}

FilterBlacklists ==
    {<<>>,
     << <<"c">> >>,
     << <<" ", "A", "\t">> >>,
     << <<"b">>, <<"u", "n", "k", "n", "o", "w", "n">> >>,
     << <<"a">>, <<"B">>, <<"c">>, <<"U", "n", "k", "n", "o", "w", "n">> >>}

FilterBudgets == {0, 35, 40}

\* The sequences of at most n elements of S.
SeqsUpTo(S, n) == UNION {[1..k -> S] : k \in 0..n}

\* ------------------------------------------------------------ the tool calls

Pending == [marker |-> "PENDING"]

\* No command of the CLI runs.
NoCli == [pc |-> "none"]

State == [store |-> store, audit |-> audit, catalog |-> catalog]

\* The order a place_order or confirm_order call is about.
OrderOf(c) == <<c.site_name, c.vendor_name, c.material, c.quantity, c.price>>

\* The call c has run to its end with the outcome r.
Finish(c, r) ==
        /\ store' = r.store
        /\ audit' = r.audit
        /\ ret' = r.ret
        /\ call' = c
        /\ ncalls' = ncalls + 1
        /\ catalog' = IF "catalog" \in DOMAIN r THEN r.catalog ELSE catalog
        /\ procs' = procs
        /\ cli' = cli
        /\ escalated' =
              IF c.op = "place_order" /\ r.ret.marker = "APPROVAL_REQUIRED"
              THEN escalated \cup {OrderOf(c)}
              ELSE IF c.op = "confirm_order"
              THEN escalated \ {OrderOf(c)}
              ELSE escalated
        /\ lastStored' =
              IF c.op = "store_site_rules" /\ r.ret.marker = "Rules stored"
              THEN Put(lastStored, Strip(c.site_name),
                       [approval_limit |-> c.approval_limit,
                        vendor_blacklist |->
                            [i \in 1..Len(c.vendor_blacklist) |->
                                Strip(c.vendor_blacklist[i])]])
              ELSE lastStored

StoreSiteRulesRun(c) ==
    Finish(c, StoreSiteRules(State, c.site_name, c.approval_limit,
                             c.vendor_blacklist, c.io))

RetrieveSiteRulesRun(c) == Finish(c, RetrieveSiteRules(State, c.site_name, c.io))

FetchVendorsRun(c) == Finish(c, FetchVendors(State, c.material, c.io))

FilterVendorsRun(c) ==
    Finish(c, FilterVendors(State, c.vendors, c.blacklist, c.budget,
                            c.site_name, c.io))

PlaceOrderRun(c) ==
    Finish(c, PlaceOrder(State, c.vendor_name, c.price, c.quantity, c.material,
                         c.site_name, c.approval_limit, c.io))

ConfirmOrderRun(c) ==
    Finish(c, ConfirmOrder(State, c.vendor_name, c.price, c.quantity,
                           c.material, c.site_name, c.io))

StoreSiteRulesCall ==
    /\ ncalls < MaxCalls
    /\ \E s \in SiteNames, r \in RuleSets :
          StoreSiteRulesRun([op |-> "store_site_rules", site_name |-> s,
                approval_limit |-> r.approval_limit,
                vendor_blacklist |-> r.vendor_blacklist, io |-> IoOk])

RetrieveSiteRulesCall ==
    /\ ncalls < MaxCalls
    /\ \E s \in SiteNames :
          RetrieveSiteRulesRun([op |-> "retrieve_site_rules", site_name |-> s, io |-> IoOk])

FetchVendorsCall ==
    /\ ncalls < MaxCalls
    /\ \E m \in FetchMaterials :
          FetchVendorsRun([op |-> "fetch_vendors", material |-> m, io |-> IoOk])

FilterVendorsCall ==
    /\ ncalls < MaxCalls
    /\ \E vs \in SessionFilterLists, b \in SessionFilterBlacklists,
          g \in SessionFilterBudgets, s \in OrderSites :
          FilterVendorsRun([op |-> "filter_vendors", vendors |-> vs, blacklist |-> b,
                budget |-> g, site_name |-> s, io |-> IoOk])

PlaceOrderCall ==
    /\ ncalls < MaxCalls
    /\ \E v \in OrderVendors, p \in OrderPrices, s \in OrderSites,
          l \in OrderLimits :
          PlaceOrderRun([op |-> "place_order", vendor_name |-> v, price |-> p,
                quantity |-> 1, material |-> Cement, site_name |-> s,
                approval_limit |-> l, io |-> IoOk])

ConfirmOrderCall ==
    /\ ncalls < MaxCalls
    /\ \E v \in OrderVendors, p \in OrderPrices, s \in OrderSites :
          ConfirmOrderRun([op |-> "confirm_order", vendor_name |-> v, price |-> p,
                quantity |-> 1, material |-> Cement, site_name |-> s,
                io |-> IoOk])

\* A session: an empty store, an empty audit trail, then tool calls in any
\* order, each run to its end before the next (no I/O failure).
Init ==
    /\ store = EmptyDict
    /\ audit = <<>>
    /\ catalog = Catalog
    /\ call = [op |-> "none"]
    /\ ret = [marker |-> "none"]
    /\ ncalls = 0
    /\ escalated = {}
    /\ lastStored = EmptyDict
    /\ procs = <<>>
    /\ cli = NoCli

Next ==
    \/ StoreSiteRulesCall
    \/ RetrieveSiteRulesCall
    \/ FetchVendorsCall
    \/ FilterVendorsCall
    \/ PlaceOrderCall
    \/ ConfirmOrderCall

Spec == Init /\ [][Next]_vars

\* filter_vendors alone: one call on any vendor list, blacklist and budget.
InitFilter ==
    /\ store = EmptyDict
    /\ audit = <<>>
    /\ catalog = Catalog
    /\ call \in {[op |-> "filter_vendors", vendors |-> vs, blacklist |-> b,
                  budget |-> g, site_name |-> <<"s">>, io |-> IoOk] :
                    vs \in SeqsUpTo(VendorPool, MaxVendors),
                    b \in FilterBlacklists, g \in FilterBudgets}
    /\ ret = Pending
    /\ ncalls = 0
    /\ escalated = {}
    /\ lastStored = EmptyDict
    /\ procs = <<>>
    /\ cli = NoCli

\* The call drawn by the initial state runs.
RunFilter == ret = Pending /\ FilterVendorsRun(call)

SpecFilter == InitFilter /\ [][RunFilter]_vars

\* One tool call in an environment that may fail: the read of a file, the
\* write of memory_store.json (at open or in json.dump) and each audit append.
WriteOutcomes == {"ok", "open", "dump"}

IoOf(read, write, auditFail) ==
    IF write = "ok"
    THEN [read |-> read, write |-> TRUE, auditFail |-> auditFail]
    ELSE [read |-> read, write |-> FALSE, auditFail |-> auditFail,
          cause |-> write]

IoChoices ==
    {IoOf(r, w, f) : r \in BOOLEAN, w \in WriteOutcomes, f \in SUBSET {1, 2}}

IoSiteNames == {<<"s">>, <<" ", "s", "\t">>, <<>>, <<" ", "\t">>, OrdersKey}

\* The files as a session leaves them: untouched; after rules were stored for
\* a site; after an order was placed as well; after rules were stored for a
\* site named "orders".
NoCalls == [store |-> EmptyDict, audit |-> <<>>, catalog |-> Catalog]

After(st, r) == [store |-> r.store, audit |-> r.audit, catalog |-> st.catalog]

RulesStored ==
    After(NoCalls, StoreSiteRules(NoCalls, <<"s">>, 100,
                                  << <<" ", "B", "\t">>, <<"a">> >>, IoOk))

OrderPlaced ==
    After(RulesStored,
          PlaceOrder(RulesStored, <<"a">>, 80, 1, Cement, <<"s">>, 80, IoOk))

OrdersSiteStored ==
    After(NoCalls, StoreSiteRules(NoCalls, OrdersKey, 80, <<>>, IoOk))

SessionStates == {NoCalls, RulesStored, OrderPlaced, OrdersSiteStored}

IoCalls ==
    {[op |-> "store_site_rules", site_name |-> n,
      approval_limit |-> r.approval_limit,
      vendor_blacklist |-> r.vendor_blacklist, io |-> io] :
        n \in IoSiteNames, r \in RuleSets, io \in IoChoices}
    \cup {[op |-> "retrieve_site_rules", site_name |-> n, io |-> io] :
              n \in IoSiteNames, io \in IoChoices}
    \cup {[op |-> "fetch_vendors", material |-> m, io |-> io] :
              m \in FetchMaterials, io \in IoChoices}
    \cup {[op |-> "filter_vendors", vendors |-> vs, blacklist |-> b,
           budget |-> g, site_name |-> <<"s">>, io |-> io] :
              vs \in SessionFilterLists, b \in SessionFilterBlacklists,
              g \in SessionFilterBudgets, io \in IoChoices}
    \cup {[op |-> "place_order", vendor_name |-> <<"a">>, price |-> p,
           quantity |-> 1, material |-> Cement, site_name |-> <<"s">>,
           approval_limit |-> l, io |-> io] :
              p \in OrderPrices, l \in OrderLimits, io \in IoChoices}
    \cup {[op |-> "confirm_order", vendor_name |-> <<"a">>, price |-> p,
           quantity |-> 1, material |-> Cement, site_name |-> <<"s">>,
           io |-> io] :
              p \in OrderPrices, io \in IoChoices}

InitIo ==
    /\ \E st \in SessionStates : store = st.store /\ audit = st.audit
    /\ catalog = Catalog
    /\ call \in IoCalls
    /\ ret = Pending
    /\ ncalls = 0
    /\ escalated = {}
    /\ lastStored = EmptyDict
    /\ procs = <<>>
    /\ cli = NoCli

StoreSiteRulesIo ==
    ret = Pending /\ call.op = "store_site_rules" /\ StoreSiteRulesRun(call)

RetrieveSiteRulesIo ==
    ret = Pending /\ call.op = "retrieve_site_rules" /\ RetrieveSiteRulesRun(call)

FetchVendorsIo ==
    ret = Pending /\ call.op = "fetch_vendors" /\ FetchVendorsRun(call)

FilterVendorsIo ==
    ret = Pending /\ call.op = "filter_vendors" /\ FilterVendorsRun(call)

PlaceOrderIo ==
    ret = Pending /\ call.op = "place_order" /\ PlaceOrderRun(call)

ConfirmOrderIo ==
    ret = Pending /\ call.op = "confirm_order" /\ ConfirmOrderRun(call)

\* The call drawn by the initial state runs, in the environment drawn with it.
NextIo ==
    \/ StoreSiteRulesIo
    \/ RetrieveSiteRulesIo
    \/ FetchVendorsIo
    \/ FilterVendorsIo
    \/ PlaceOrderIo
    \/ ConfirmOrderIo

SpecIo == InitIo /\ [][NextIo]_vars

\* fetch_vendors alone: one call on a catalog as mock_vendors.json may hold
\* it: the catalog of a session; one with a category written with whitespace
\* around it; one without vendors; an empty or unreadable file.
PaddedCatalog ==
    [vendors |->
        << [name |-> <<"a">>, category |-> Cement, price_per_100_bags_inr |-> 35],
           [name |-> <<"p">>,
            category |-> <<" ", "C", "e", "m", "e", "n", "t", " ">>,
            price_per_100_bags_inr |-> 36],
           [name |-> <<"d">>, price_per_100_bags_inr |-> 10] >>]

Catalogs == {Catalog, PaddedCatalog, [vendors |-> <<>>], EmptyDict}

Materials ==
    {Cement, <<" ", "C", "e", "m", "e", "n", "t", "\t">>,
     <<"C", "e", "m", "e", "n", "t">>, Sand, <<"S", "a", "n", "d", " ">>,
     Glass, <<>>, <<" ">>}

InitFetch ==
    /\ \E st \in {NoCalls, OrderPlaced} : store = st.store /\ audit = st.audit
    /\ catalog \in Catalogs
    /\ call \in {[op |-> "fetch_vendors", material |-> m, io |-> IoOk] :
                    m \in Materials}
    /\ ret = Pending
    /\ ncalls = 0
    /\ escalated = {}
    /\ lastStored = EmptyDict
    /\ procs = <<>>
    /\ cli = NoCli

\* The call drawn by the initial state runs.
RunFetch == ret = Pending /\ FetchVendorsRun(call)

SpecFetch == InitFetch /\ [][RunFetch]_vars

\* fetch_vendors alone on a catalog file that cannot be read or holds no
\* vendors, beside the catalog of a session.
CatalogFiles ==
    {Faulty(k) : k \in FileFaults}
        \cup {EmptyDict, [version |-> 1], [vendors |-> <<>>], Catalog}

InitCatalog ==
    /\ \E st \in {NoCalls, OrderPlaced} : store = st.store /\ audit = st.audit
    /\ catalog \in CatalogFiles
    /\ call \in {[op |-> "fetch_vendors", material |-> m, io |-> IoOk] :
                    m \in Materials}
    /\ ret = Pending
    /\ ncalls = 0
    /\ escalated = {}
    /\ lastStored = EmptyDict
    /\ procs = <<>>
    /\ cli = NoCli

\* The call drawn by the initial state runs.
RunCatalog == ret = Pending /\ FetchVendorsRun(call)

SpecCatalog == InitCatalog /\ [][RunCatalog]_vars

\* Two tool calls at the same time on the same files.  A call that changes
\* the store reads memory_store.json, changes the dict it has read and writes
\* the whole dict back; nothing keeps another call from reading or writing in
\* between.  Each call takes two steps, the read and the write (a read or a
\* write of the file is taken as one step).  The calls are such that each
\* reaches its write: a non-blank site name, a price within the limit.
RaceCallsOne ==
    {[op |-> "store_site_rules", site_name |-> <<" ", "s", "\t">>,
      approval_limit |-> 80, vendor_blacklist |-> <<>>],
     [op |-> "place_order", vendor_name |-> <<"a">>, price |-> 35,
      quantity |-> 1, material |-> Cement, site_name |-> <<"s">>,
      approval_limit |-> 80],
     [op |-> "confirm_order", vendor_name |-> <<"a">>, price |-> 103,
      quantity |-> 1, material |-> Cement, site_name |-> <<"s">>]}

RaceCallsTwo ==
    {[op |-> "store_site_rules", site_name |-> <<"t">>,
      approval_limit |-> 100, vendor_blacklist |-> << <<"a", " ">> >>],
     [op |-> "place_order", vendor_name |-> <<"B">>, price |-> 45,
      quantity |-> 2, material |-> Cement, site_name |-> <<"s">>,
      approval_limit |-> 45],
     [op |-> "confirm_order", vendor_name |-> <<"B">>, price |-> 103,
      quantity |-> 1, material |-> Cement, site_name |-> <<"s">>]}

RaceStates == {NoCalls, RulesStored, OrderPlaced}

\* A call that has not started: seen is the number of writes that were done
\* when the call read the store.
Started(c) ==
    [call |-> c, pc |-> "read", snap |-> EmptyDict, seen |-> 0,
     ret |-> Pending]

InitRace ==
    /\ \E st \in RaceStates : store = st.store /\ audit = st.audit
    /\ catalog = Catalog
    /\ call = [op |-> "none"]
    /\ ret = [marker |-> "none"]
    /\ ncalls = 0
    /\ escalated = {}
    /\ lastStored = EmptyDict
    /\ procs \in {<<Started(c), Started(d)>> :
                      c \in RaceCallsOne, d \in RaceCallsTwo}
    /\ cli = NoCli

\* Variant of WriteBase for a store whose read-modify-write is atomic: the
\* change is made to the content the file has at the write.
FreshBase(snap, current) == current

\* The dict a call changes and writes back: the one it has read.
WriteBase(snap, current) == snap

\* The call runs up to its read_json: place_order has logged vendor_selected.
RaceRead(p) ==
    LET c == procs[p].call
    IN  /\ procs[p].pc = "read"
        /\ procs' = [procs EXCEPT ![p].pc = "write",
                                  ![p].snap = ReadJson(store, TRUE),
                                  ![p].seen = ncalls]
        /\ audit' = IF c.op = "place_order"
                    THEN LogDecision(audit, "vendor_selected", c.site_name,
                             [vendor |-> c.vendor_name, price |-> c.price,
                              quantity |-> c.quantity, material |-> c.material],
                             TRUE)
                    ELSE audit
        /\ UNCHANGED <<store, catalog, call, ret, ncalls, escalated, lastStored,
                       cli>>

\* The rest of the call c on the dict it has read: the change, the write,
\* the audit event, the result.
RaceRest(c, st) ==
    CASE c.op = "store_site_rules" ->
            StoreSiteRules(st, c.site_name, c.approval_limit,
                           c.vendor_blacklist, IoOk)
      [] c.op = "confirm_order" ->
            ConfirmOrder(st, c.vendor_name, c.price, c.quantity, c.material,
                         c.site_name, IoOk)
      [] c.op = "place_order" ->
            SaveOrder(st, Order(c.site_name, c.vendor_name, c.material,
                                c.quantity, c.price, "confirmed"),
                      "auto", st.audit,
                      [marker |-> "ORDER_CONFIRMED", quantity |-> c.quantity,
                       material |-> c.material, vendor |-> c.vendor_name,
                       price |-> c.price, within_limit |-> c.approval_limit],
                      IoOk)

RaceFinish(p, r) ==
    /\ store' = r.store
    /\ audit' = r.audit
    /\ procs' = [procs EXCEPT ![p].pc = "done", ![p].ret = r.ret]
    /\ ncalls' = ncalls + 1
    /\ UNCHANGED <<catalog, call, ret, escalated, lastStored, cli>>

RaceWrite(p) ==
    /\ procs[p].pc = "write"
    /\ RaceFinish(p, RaceRest(procs[p].call,
                              [store |-> WriteBase(procs[p].snap, store),
                               audit |-> audit, catalog |-> catalog]))

ReadStep == \E p \in DOMAIN procs : RaceRead(p)

WriteStep == \E p \in DOMAIN procs : RaceWrite(p)

NextRace == ReadStep \/ WriteStep

SpecRace == InitRace /\ [][NextRace]_vars

\* place_order alone: one call, for a site with or without rules (one of
\* the sites is named "orders"), on the files as a session leaves them.
PlaceSites == {<<"s">>, <<"t">>, OrdersKey}

InitPlace ==
    /\ \E st \in SessionStates : store = st.store /\ audit = st.audit
    /\ catalog = Catalog
    /\ call \in {[op |-> "place_order", vendor_name |-> v, price |-> p,
                  quantity |-> 1, material |-> Cement, site_name |-> s,
                  approval_limit |-> l, io |-> IoOk] :
                    v \in OrderVendors, p \in OrderPrices, s \in PlaceSites,
                    l \in OrderLimits}
    /\ ret = Pending
    /\ ncalls = 0
    /\ escalated = {}
    /\ lastStored = EmptyDict
    /\ procs = <<>>
    /\ cli = NoCli

\* The call drawn by the initial state runs.
RunPlace == ret = Pending /\ PlaceOrderRun(call)

SpecPlace == InitPlace /\ [][RunPlace]_vars

\* ------------------------------------------- the order command of the CLI

\* sorted(entries, key = price) of over-budget entries: ascending and stable.
InsertEntry(sorted, e) ==
    LET k == Cardinality({i \in 1..Len(sorted) : sorted[i].price <= e.price})
    IN  SubSeq(sorted, 1, k) \o <<e>> \o Drop(sorted, k)

RECURSIVE SortEntries(_)
SortEntries(entries) ==
    IF entries = <<>> THEN <<>>
    ELSE InsertEntry(SortEntries(SubSeq(entries, 1, Len(entries) - 1)),
                     entries[Len(entries)])

\* The answers that approve an order, and whether the answer a is one
\* (_ask trims the input, the loop lower-cases it).
ApproveWords ==
    {<<"y", "e", "s">>, <<"y">>, <<"a", "p", "p", "r", "o", "v", "e">>,
     <<"g", "o", " ", "a", "h", "e", "a", "d">>}

Approves(a) == Lower(Strip(a)) \in ApproveWords

\* No filter result yet.
NoFilter == [eligible |-> <<>>, rejected |-> <<>>, over_budget |-> <<>>]

\* The command before it starts: pc is its position, outcome how it ended;
\* budget, filtered, vendor and price are the locals of cmd_order, remaining
\* the queue of _handle_approval; offered (the vendors put before the user)
\* and confirms (the confirm_order calls made) are history.
Idle ==
    [pc |-> "idle", outcome |-> "none", site |-> <<>>, material |-> <<>>,
     qty |-> 0, budget |-> 0, filtered |-> NoFilter, vendor |-> <<>>,
     price |-> 0, remaining |-> <<>>, offered |-> <<>>, confirms |-> 0]

\* The command has run up to a prompt or to its end: the files st, the last
\* tool call c and its result r, the number n of tool calls made, and the
\* command state cl.
Ended(st, c, r, n, cl) ==
    [store |-> st.store, audit |-> st.audit, catalog |-> st.catalog,
     call |-> c, ret |-> r, ntools |-> n, cli |-> cl]

\* The files after fetch_vendors.
AfterFetch(r) == [store |-> r.store, audit |-> r.audit, catalog |-> r.catalog]

\* The queue of the approval loop: the over-budget entries of another name
\* than the vendor just offered, cheapest first.
Remaining(over_budget, vendor_name) ==
    SortEntries(SelectSeq(over_budget, LAMBDA o : o.vendor # vendor_name))

\* Step 5: place_order for the selected vendor with the budget as limit, and
\* the dispatch on its result; r is what place_order did.
PlaceSelected(st, cl, c, r) ==
    Ended(After(st, r), c, r.ret, 4,
          IF r.ret.marker = "APPROVAL_REQUIRED"
          THEN [cl EXCEPT !.pc = "prompt",
                          !.remaining = Remaining(cl.filtered.over_budget,
                                                  cl.vendor),
                          !.offered = <<[vendor |-> cl.vendor,
                                         price |-> cl.price]>>]
          ELSE [cl EXCEPT !.pc = "done",
                          !.outcome =
                              CASE r.ret.marker = "ORDER_CONFIRMED" -> "confirmed"
                                [] r.ret.marker = "RAISED" -> "raised"
                                [] OTHER -> "error"])

PlaceCall(cl) ==
    [op |-> "place_order", vendor_name |-> cl.vendor, price |-> cl.price,
     quantity |-> cl.qty, material |-> cl.material, site_name |-> cl.site,
     approval_limit |-> cl.budget, io |-> IoOk]

\* Step 4: the first eligible vendor, or else the cheapest over-budget one.
Selected(f) ==
    IF f.eligible # <<>>
    THEN [vendor |-> f.eligible[1].name,
          price |-> f.eligible[1].price_per_100_bags_inr]
    ELSE [vendor |-> Cheapest(f.over_budget).vendor,
          price |-> Cheapest(f.over_budget).price]

SelectVendor(st, cl) ==
    PlaceSelected(st, cl, PlaceCall(cl),
                  PlaceOrder(st, cl.vendor, cl.price, cl.qty, cl.material,
                             cl.site, cl.budget, IoOk))

\* The display of the filter result subscripts the name and the price of
\* each eligible vendor.
Displayable(f) ==
    \A i \in 1..Len(f.eligible) :
        {"name", "price_per_100_bags_inr"} \subseteq DOMAIN f.eligible[i]

\* Step 3 and what follows it; c is the filter_vendors call and r what it did.
FilterFetched(st, cl, c, r) ==
    IF ~Displayable(r.ret.value)
    THEN Ended(After(st, r), c, r.ret, 3,
               [cl EXCEPT !.pc = "done", !.outcome = "raised",
                          !.filtered = r.ret.value])
    ELSE IF r.ret.value.eligible = <<>> /\ r.ret.value.over_budget = <<>>
    THEN Ended(After(st, r), c, r.ret, 3,
               [cl EXCEPT !.pc = "done", !.outcome = "all_blacklisted",
                          !.filtered = r.ret.value])
    ELSE SelectVendor(After(st, r),
                      [cl EXCEPT !.filtered = r.ret.value,
                                 !.vendor = Selected(r.ret.value).vendor,
                                 !.price = Selected(r.ret.value).price])

FilterCall(cl, rules, vendors) ==
    [op |-> "filter_vendors", vendors |-> vendors,
     blacklist |-> rules.vendor_blacklist, budget |-> rules.approval_limit,
     site_name |-> cl.site, io |-> IoOk]

\* Steps 1 and 2, behind the three prompts: rr is what retrieve_site_rules
\* did and fr what fetch_vendors did.
OrderSteps(st, cl, rr, fr) ==
    IF rr.ret.marker = "error"
    THEN Ended(st, [op |-> "retrieve_site_rules", site_name |-> cl.site,
                    io |-> IoOk],
               rr.ret, 1, [cl EXCEPT !.pc = "done", !.outcome = "no_rules"])
    ELSE IF fr.ret.marker = "RAISED" \/ fr.ret.value = <<>>
    THEN Ended(AfterFetch(fr),
               [op |-> "fetch_vendors", material |-> cl.material, io |-> IoOk],
               fr.ret, 2,
               [cl EXCEPT !.pc = "done",
                          !.outcome = IF fr.ret.marker = "RAISED" THEN "raised"
                                      ELSE "no_vendors"])
    ELSE FilterFetched(AfterFetch(fr),
                       [cl EXCEPT !.budget = rr.ret.value.approval_limit],
                       FilterCall(cl, rr.ret.value, fr.ret.value),
                       FilterVendors(AfterFetch(fr), fr.ret.value,
                                     rr.ret.value.vendor_blacklist,
                                     rr.ret.value.approval_limit, cl.site, IoOk))

\* cmd_order up to its end or to the first prompt of the approval loop; site
\* and material are the answers as _ask returns them, qty the answer to the
\* quantity prompt, a number or not.
CmdOrderRun(st, site, material, qty) ==
    IF site = <<>> \/ material = <<>> \/ ~qty.valid
    THEN Ended(st, [op |-> "none"], [marker |-> "none"], 0,
               [Idle EXCEPT !.pc = "done", !.outcome = "bad_input",
                            !.site = site, !.material = material])
    ELSE OrderSteps(st,
                    [Idle EXCEPT !.site = site, !.material = material,
                                 !.qty = qty.value],
                    RetrieveSiteRules(st, site, IoOk),
                    FetchVendors(st, material, IoOk))

\* The command r has run to is the state.
CliStep(r) ==
    /\ store' = r.store
    /\ audit' = r.audit
    /\ catalog' = r.catalog
    /\ call' = r.call
    /\ ret' = r.ret
    /\ ncalls' = ncalls + r.ntools
    /\ cli' = r.cli
    /\ UNCHANGED <<escalated, lastStored, procs>>

\* The inputs of the command.  The vendors of the catalog have every field;
\* two names occur twice, at two prices, and two vendors share a price.
CliCatalog ==
    [vendors |->
        << [name |-> <<"a">>, category |-> Cement, price_per_100_bags_inr |-> 35],
           [name |-> <<"B">>, category |-> <<"C", "e", "m", "e", "n", "t">>,
            price_per_100_bags_inr |-> 45],
           [name |-> <<"e">>, category |-> Cement, price_per_100_bags_inr |-> 45],
           [name |-> <<"a">>, category |-> Cement, price_per_100_bags_inr |-> 50],
           [name |-> <<"e">>, category |-> Cement, price_per_100_bags_inr |-> 50],
           [name |-> <<"c">>, category |-> Sand, price_per_100_bags_inr |-> 39] >>]

CliLimits == {0, 30, 40, 45, 100}

CliBlacklists == {<<>>, << <<" ", "A">> >>, << <<"a">>, <<"b">>, <<"e">> >>}

CliSites == {<<"s">>, OrdersKey, <<"t">>, <<" ">>}

CliMaterials == {<<" ", "C", "e", "m", "e", "n", "t">>, Sand, Glass, <<>>}

CliQuantities == {[valid |-> TRUE, value |-> 2], [valid |-> FALSE]}

CliAnswers ==
    {<<"y">>, <<" ", "A", "p", "p", "r", "o", "v", "e">>, <<"n", "o">>, <<>>,
     <<"y", "e", "s", " ", "s", "o", "o", "n">>}

\* The files before the command: nothing stored, or rules stored for the
\* site "s" or for a site named "orders".
CliFiles ==
    {[store |-> EmptyDict, audit |-> <<>>, catalog |-> CliCatalog]}
        \cup {After([store |-> EmptyDict, audit |-> <<>>, catalog |-> CliCatalog],
                    StoreSiteRules([store |-> EmptyDict, audit |-> <<>>,
                                    catalog |-> CliCatalog], n, l, b, IoOk)) :
                 n \in {<<"s">>, OrdersKey}, l \in CliLimits, b \in CliBlacklists}

InitCli ==
    /\ \E st \in CliFiles : store = st.store /\ audit = st.audit
    /\ catalog = CliCatalog
    /\ call = [op |-> "none"]
    /\ ret = [marker |-> "none"]
    /\ ncalls = 0
    /\ escalated = {}
    /\ lastStored = EmptyDict
    /\ procs = <<>>
    /\ cli = Idle

\* The user enters "order" and answers its three prompts.
CmdOrder ==
    /\ cli.pc = "idle"
    /\ \E s \in CliSites, m \in CliMaterials, q \in CliQuantities :
          CliStep(CmdOrderRun(State, Strip(s), Strip(m), q))

\* confirm_order for the vendor on offer; r is what it did.
Confirmed(c, r) ==
    Ended(After(State, r), c, r.ret, 1,
          [cli EXCEPT !.pc = "done", !.confirms = @ + 1,
                      !.outcome = IF r.ret.marker = "ORDER_CONFIRMED"
                                  THEN "approved" ELSE "raised"])

\* The user approves the order on offer.
Approve ==
    /\ cli.pc = "prompt"
    /\ \E a \in CliAnswers : Approves(a)
    /\ CliStep(Confirmed([op |-> "confirm_order", vendor_name |-> cli.vendor,
                          price |-> cli.price, quantity |-> cli.qty,
                          material |-> cli.material, site_name |-> cli.site,
                          io |-> IoOk],
                         ConfirmOrder(State, cli.vendor, cli.price, cli.qty,
                                      cli.material, cli.site, IoOk)))

\* The order on offer is rejected: the loop ends when the queue is empty,
\* and otherwise offers the head of the queue (the rules are read again for
\* the display of the overage; no tool that writes is called).
Rejected ==
    IF cli.remaining = <<>>
    THEN Ended(State, call, ret, 0,
               [cli EXCEPT !.pc = "done", !.outcome = "rejected"])
    ELSE Ended(State,
               [op |-> "retrieve_site_rules", site_name |-> cli.site,
                io |-> IoOk],
               RetrieveSiteRules(State, cli.site, IoOk).ret, 1,
               [cli EXCEPT !.vendor = Head(cli.remaining).vendor,
                           !.price = Head(cli.remaining).price,
                           !.remaining = Tail(cli.remaining),
                           !.offered =
                               Append(@, [vendor |-> Head(cli.remaining).vendor,
                                          price |-> Head(cli.remaining).price])])

\* The user gives another answer.
Reject ==
    /\ cli.pc = "prompt"
    /\ \E a \in CliAnswers : ~Approves(a)
    /\ CliStep(Rejected)

NextCli == CmdOrder \/ Approve \/ Reject

SpecCli == InitCli /\ [][NextCli]_vars

\* The command with a user who answers every prompt: input() blocks until
\* an answer is given, and each answer is one step of the command.
SpecCliLive == SpecCli /\ WF_vars(NextCli)

\* ------------------------------------------------------------- the claims

\* The orders list as persisted: the list under "orders", empty when the
\* store holds no list there.
OrdersOf(s) ==
    IF OrdersKey \in DOMAIN s /\ s[OrdersKey].type = "list"
    THEN s[OrdersKey].items
    ELSE <<>>

IsPrefix(s, t) == Len(s) <= Len(t) /\ SubSeq(t, 1, Len(s)) = s

\* The order of a record of the orders list, without its status.
OrderTuple(o) ==
    <<o.site_name, o.vendor_name, o.material, o.quantity, o.price_inr>>

\* How many records of the orders list are the order o.
CountOrder(o, orders) ==
    Cardinality({i \in 1..Len(orders) : OrderTuple(orders[i]) = o})

\* The order record a place_order or confirm_order call is to save.
OrderRecord(c, status) ==
    [site_name |-> c.site_name, vendor_name |-> c.vendor_name,
     material |-> c.material, quantity |-> c.quantity, price_inr |-> c.price,
     status |-> status]

\* C1: place_order auto-confirms (appends exactly one Order with status
\* confirmed and returns ORDER_CONFIRMED) iff price <= approval_limit, and
\* escalates (APPROVAL_REQUIRED) whenever price > approval_limit.
C1_GateThreshold ==
    [][call'.op = "place_order" =>
          /\ (call'.price <= call'.approval_limit) <=>
                /\ ret'.marker = "ORDER_CONFIRMED"
                /\ OrdersOf(store') =
                      Append(OrdersOf(store), OrderRecord(call', "confirmed"))
          /\ call'.price > call'.approval_limit =>
                ret'.marker = "APPROVAL_REQUIRED"]_vars

\* C2 as stated: the escalating place_order call leaves the store unchanged,
\* and an escalated order is added to the orders list by no call other than
\* the confirm_order call for it.
C2_OnlyConfirmOrderAdds ==
    [][/\ call'.op = "place_order" /\ ret'.marker = "APPROVAL_REQUIRED" =>
             store' = store
       /\ \A o \in escalated :
             CountOrder(o, OrdersOf(store')) > CountOrder(o, OrdersOf(store)) =>
                call'.op = "confirm_order" /\ OrderOf(call') = o]_vars

\* C2 as amended: the escalating place_order call leaves the store unchanged;
\* an escalated order is added only by the confirm_order call for it or by a
\* place_order call for it whose price is within the limit that call is
\* given; and an order with status confirmed_with_approval is added by
\* confirm_order alone.
C2_EscalationNotPersisted ==
    [][/\ call'.op = "place_order" /\ ret'.marker = "APPROVAL_REQUIRED" =>
             store' = store
       /\ \A o \in escalated :
             CountOrder(o, OrdersOf(store')) > CountOrder(o, OrdersOf(store)) =>
                /\ call'.op \in {"confirm_order", "place_order"}
                /\ OrderOf(call') = o
                /\ call'.op = "place_order" =>
                      call'.price <= call'.approval_limit
       /\ \A i \in (Len(OrdersOf(store)) + 1)..Len(OrdersOf(store')) :
             OrdersOf(store')[i].status = "confirmed_with_approval" =>
                call'.op = "confirm_order"]_vars

\* An escalated order has been saved by the confirm_order call for it, after
\* the escalation was logged and nothing was saved by it.
C2_Witness ==
    /\ call.op = "confirm_order"
    /\ ret.marker = "ORDER_CONFIRMED"
    /\ Len(OrdersOf(store)) = 1
    /\ OrdersOf(store)[1].status = "confirmed_with_approval"
    /\ \E i \in 1..Len(audit) :
          /\ audit[i].event_type = "approval_requested"
          /\ audit[i].details.vendor = call.vendor_name
          /\ audit[i].details.price = call.price

\* C3: each call leaves the previous orders list as a prefix of the new one,
\* and the key of the orders is held by no site-rules entry.
C3_OrdersOnlyGrow ==
    [][/\ IsPrefix(OrdersOf(store), OrdersOf(store'))
       /\ OrdersKey \in DOMAIN store' => store'[OrdersKey].type = "list"]_vars

\* The result of a filter_vendors call is at hand.
FilterDone == call.op = "filter_vendors" /\ ret.marker = "filter_result"

\* A vendor as the buckets tell it: its name and its price.
NamePrice(v) == <<VName(v), VPrice(v)>>

InputPairs == [i \in 1..Len(call.vendors) |-> NamePrice(call.vendors[i])]

EligiblePairs ==
    [i \in 1..Len(ret.value.eligible) |-> NamePrice(ret.value.eligible[i])]

RejectedPairs ==
    [i \in 1..Len(ret.value.rejected) |->
        <<ret.value.rejected[i].vendor, ret.value.rejected[i].price>>]

OverBudgetPairs ==
    [i \in 1..Len(ret.value.over_budget) |->
        <<ret.value.over_budget[i].vendor, ret.value.over_budget[i].price>>]

Range(s) == {s[i] : i \in 1..Len(s)}

Count(s, x) == Cardinality({i \in 1..Len(s) : s[i] = x})

Names(pairs) == {p[1] : p \in Range(pairs)}

SizesAddUp ==
    Len(ret.value.eligible) + Len(ret.value.rejected)
        + Len(ret.value.over_budget) = Len(call.vendors)

\* Every vendor, as often as the input holds it, is in one bucket and in no
\* other, and the buckets hold nothing else.
ExactlyOneBucket ==
    \A p \in Range(InputPairs) \cup Range(EligiblePairs)
                \cup Range(RejectedPairs) \cup Range(OverBudgetPairs) :
        \E b \in {EligiblePairs, RejectedPairs, OverBudgetPairs} :
            /\ Count(b, p) = Count(InputPairs, p)
            /\ \A c \in {EligiblePairs, RejectedPairs, OverBudgetPairs} \ {b} :
                  Count(c, p) = 0

\* C4 as stated: the sizes add up, every input vendor is in exactly one
\* bucket, and the name sets of the three buckets are pairwise disjoint.
C4_PartitionDisjointNames ==
    FilterDone =>
        /\ SizesAddUp
        /\ ExactlyOneBucket
        /\ Names(EligiblePairs) \cap Names(RejectedPairs) = {}
        /\ Names(EligiblePairs) \cap Names(OverBudgetPairs) = {}
        /\ Names(RejectedPairs) \cap Names(OverBudgetPairs) = {}

\* C4 as amended: the sizes add up, every input vendor is in exactly one
\* bucket, the names of rejected are in no other bucket, and eligible and
\* over_budget share a name only when the input holds that name twice, once
\* at a price within the budget and once at a price above it.
C4_Partition ==
    FilterDone =>
        /\ SizesAddUp
        /\ ExactlyOneBucket
        /\ Names(RejectedPairs)
              \cap (Names(EligiblePairs) \cup Names(OverBudgetPairs)) = {}
        /\ \A n \in Names(EligiblePairs) \cap Names(OverBudgetPairs) :
              \E i, j \in 1..Len(call.vendors) :
                  /\ i # j
                  /\ VName(call.vendors[i]) = n
                  /\ VName(call.vendors[j]) = n
                  /\ VPrice(call.vendors[i]) <= call.budget
                  /\ VPrice(call.vendors[j]) > call.budget

\* A list with a name twice has filled all three buckets, the name in two.
C4_Witness ==
    /\ FilterDone
    /\ ret.value.rejected # <<>>
    /\ Names(EligiblePairs) \cap Names(OverBudgetPairs) # {}

\* The name of v, trimmed and lower-cased, is a blacklist entry trimmed and
\* lower-cased.
IsBlacklisted(v, blacklist) ==
    \E j \in 1..Len(blacklist) :
        Lower(Strip(VName(v))) = Lower(Strip(blacklist[j]))

\* C5: a vendor lands in rejected iff it is blacklisted, whatever its price;
\* otherwise in over_budget iff price > budget and in eligible iff
\* price <= budget.
C5_Precedence ==
    FilterDone =>
        /\ \A i \in 1..Len(call.vendors) :
              LET v == call.vendors[i]
                  p == NamePrice(v)
                  bucket == IF IsBlacklisted(v, call.blacklist)
                            THEN RejectedPairs
                            ELSE IF VPrice(v) > call.budget
                            THEN OverBudgetPairs
                            ELSE EligiblePairs
              IN  /\ Count(bucket, p) = Count(InputPairs, p)
                  /\ Count(EligiblePairs, p) + Count(RejectedPairs, p)
                        + Count(OverBudgetPairs, p) = Count(InputPairs, p)
        /\ Range(EligiblePairs) \cup Range(RejectedPairs)
              \cup Range(OverBudgetPairs) \subseteq Range(InputPairs)

\* A vendor both blacklisted and over budget is in rejected, and a vendor at
\* exactly the budget is eligible.
C5_Witness ==
    /\ FilterDone
    /\ \E i \in 1..Len(ret.value.rejected) :
          ret.value.rejected[i].price > call.budget
    /\ \E i \in 1..Len(ret.value.eligible) :
          VPrice(ret.value.eligible[i]) = call.budget
    /\ ret.value.over_budget # <<>>

\* The input vendors that pass the blacklist and the budget, in input order.
Passing ==
    SelectSeq(call.vendors,
              LAMBDA v : ~IsBlacklisted(v, call.blacklist)
                         /\ VPrice(v) <= call.budget)

\* C6: eligible is non-decreasing in price, a permutation of the passing
\* input vendors, and keeps vendors of equal price in input order; so its
\* head is the first of the cheapest passing vendors.
C6_EligibleSortedStable ==
    FilterDone =>
        LET el == ret.value.eligible
        IN  /\ \A i, j \in 1..Len(el) :
                  i < j => VPrice(el[i]) <= VPrice(el[j])
            /\ Len(el) = Len(Passing)
            /\ \A q \in {VPrice(Passing[i]) : i \in 1..Len(Passing)} :
                  SelectSeq(el, LAMBDA v : VPrice(v) = q)
                     = SelectSeq(Passing, LAMBDA v : VPrice(v) = q)
            /\ el # <<>> =>
                  \E k \in 1..Len(Passing) :
                      /\ el[1] = Passing[k]
                      /\ \A j \in 1..Len(Passing) :
                            VPrice(Passing[k]) <= VPrice(Passing[j])
                      /\ \A j \in 1..(k - 1) :
                            VPrice(Passing[j]) > VPrice(Passing[k])

\* The sort has moved a vendor, and two different vendors of one price have
\* kept their order.
C6_Witness ==
    /\ FilterDone
    /\ ret.value.eligible # Passing
    /\ \E i \in 1..Len(ret.value.eligible) :
          \E j \in (i + 1)..Len(ret.value.eligible) :
              /\ VPrice(ret.value.eligible[i]) = VPrice(ret.value.eligible[j])
              /\ ret.value.eligible[i] # ret.value.eligible[j]

\* C7: place_order ends by returning a result string (confirmation,
\* escalation or tagged error), never in an uncaught fault.
C7_PlaceOrderReturns ==
    call.op = "place_order" =>
        ret.marker \in {"ORDER_CONFIRMED", "APPROVAL_REQUIRED", "Error"}

\* 100 * o / l in tenths, rounded half up and rounded half to even.
HalfUpTenths(o, l) == (2000 * o + l) \div (2 * l)

HalfEvenTenths(o, l) ==
    LET f == (1000 * o) \div l
        twice == 2 * (1000 * o - f * l)
    IN  IF twice > l \/ (twice = l /\ f % 2 = 1) THEN f + 1 ELSE f

\* C8: when place_order escalates with approval_limit > 0, the returned block
\* and the approval_requested event carry overage = price - approval_limit
\* and overage_pct = 100 * overage / approval_limit rounded to one decimal
\* place by a round-half rule (half up or half to even).
C8_EscalationArithmetic ==
    (/\ call.op = "place_order"
     /\ ret.marker = "APPROVAL_REQUIRED"
     /\ call.approval_limit > 0) =>
        LET o == call.price - call.approval_limit
            event == audit[Len(audit)]
        IN  /\ ret.overage = o
            /\ ret.overage_pct \in {HalfUpTenths(o, call.approval_limit),
                                    HalfEvenTenths(o, call.approval_limit)}
            /\ event.event_type = "approval_requested"
            /\ event.details.overage = ret.overage
            /\ event.details.overage_pct = ret.overage_pct

\* C9: in every state confirm_order appends exactly one Order with status
\* confirmed_with_approval, logs order_placed tagged approval = human and
\* returns ORDER_CONFIRMED.
C9_ConfirmUnconditional ==
    [][call'.op = "confirm_order" =>
          /\ ret'.marker = "ORDER_CONFIRMED"
          /\ OrdersOf(store') =
                Append(OrdersOf(store),
                       OrderRecord(call', "confirmed_with_approval"))
          /\ Len(audit') = Len(audit) + 1
          /\ audit'[Len(audit')].event_type = "order_placed"
          /\ audit'[Len(audit')].details.approval = "human"]_vars

\* C10: retrieve_site_rules(S) after a store_site_rules(S, L, B) that
\* succeeded returns exactly {approval_limit: L, vendor_blacklist: B with
\* each entry trimmed}, the whitespace around S ignored on both calls, also
\* with other calls in between (lastStored holds L and B trimmed).
C10_RoundTrip ==
    (/\ call.op = "retrieve_site_rules"
     /\ Strip(call.site_name) \in DOMAIN lastStored) =>
        /\ ret.marker = "rules"
        /\ ret.value = lastStored[Strip(call.site_name)]

\* Rules with a padded blacklist entry, stored under a padded name, have been
\* retrieved after an order was placed in between.
C10_Witness ==
    /\ call.op = "retrieve_site_rules"
    /\ call.site_name # Strip(call.site_name)
    /\ ret.marker = "rules"
    /\ ret.value.vendor_blacklist # <<>>
    /\ Len(audit) >= 2
    /\ audit[1].event_type = "rules_stored"
    /\ audit[Len(audit)].event_type = "order_placed"

\* The rules a store_site_rules call c is to write under its trimmed name.
RulesOf(c) == RulesValue(c.approval_limit, MapStrip(c.vendor_blacklist))

\* C11: a store_site_rules call that succeeds leaves under the trimmed site
\* name exactly the limit and the trimmed blacklist it was given, whatever
\* the site had before, and adds no other key; when the site already has
\* exactly these rules the store is left as it was.
C11_Overwrite ==
    [][(call'.op = "store_site_rules" /\ ret'.marker = "Rules stored") =>
          LET k == Strip(call'.site_name)
          IN  /\ DOMAIN store' = DOMAIN store \cup {k}
              /\ store'[k] = RulesOf(call')
              /\ (k \in DOMAIN store /\ store[k] = RulesOf(call')) =>
                    store' = store]_vars

\* Rules have been stored for a site that had rules with another, non-empty
\* blacklist, and the entry of the site holds the second blacklist alone.
C11_Witness ==
    /\ call.op = "store_site_rules"
    /\ ret.marker = "Rules stored"
    /\ store[Strip(call.site_name)] = RulesOf(call)
    /\ \E i \in 1..(Len(audit) - 1) :
          /\ audit[i].event_type = "rules_stored"
          /\ audit[i].site_name = Strip(call.site_name)
          /\ audit[i].details.vendor_blacklist # <<>>
          /\ audit[i].details.vendor_blacklist # MapStrip(call.vendor_blacklist)

\* The audit events a call has appended.
Appended == SubSeq(audit', Len(audit) + 1, Len(audit'))

\* C12: a place_order call whose audit appends succeed appends vendor_selected
\* (with the vendor, price, quantity and material of the call) as the first of
\* its events and only once, whatever the outcome (order saved, escalation,
\* failed store write, fault); the only events behind it are order_placed
\* and approval_requested.
C12_VendorSelectedFirst ==
    [][(call'.op = "place_order" /\ call'.io.auditFail = {}) =>
          /\ IsPrefix(audit, audit')
          /\ Appended # <<>>
          /\ Appended[1] =
                [event_type |-> "vendor_selected", site_name |-> call'.site_name,
                 details |-> [vendor |-> call'.vendor_name,
                              price |-> call'.price,
                              quantity |-> call'.quantity,
                              material |-> call'.material]]
          /\ \A i \in 2..Len(Appended) :
                Appended[i].event_type \in {"order_placed", "approval_requested"}
          /\ (ret'.marker \in {"ORDER_CONFIRMED", "APPROVAL_REQUIRED"}) =>
                Len(Appended) = 2]_vars

\* The store write of a place_order call has failed, and vendor_selected is
\* the one event the call has left.
C12_Witness ==
    /\ call.op = "place_order"
    /\ call.io.auditFail = {}
    /\ ret.marker = "Error"
    /\ audit # <<>>
    /\ audit[Len(audit)].event_type = "vendor_selected"
    /\ \A i \in 1..Len(audit) : audit[i].event_type # "order_placed"

\* The input vendors that do not pass the blacklist or the budget, in input
\* order.
NotPassing ==
    SelectSeq(call.vendors,
              LAMBDA v : IsBlacklisted(v, call.blacklist)
                         \/ VPrice(v) > call.budget)

\* The vendor_rejected event of a vendor that does not pass: its name, its
\* price and the reason (the over-budget reason states the budget).
RejectionEvent(v) ==
    [event_type |-> "vendor_rejected", site_name |-> call.site_name,
     details |-> IF IsBlacklisted(v, call.blacklist)
                 THEN [vendor |-> VName(v), price |-> VPrice(v),
                       reason |-> "Blacklisted for this site"]
                 ELSE [vendor |-> VName(v), price |-> VPrice(v),
                       reason |-> "exceeds budget", budget |-> call.budget]]

\* C13: a filter_vendors call (on an empty audit trail) leaves
\* |rejected| + |over_budget| events: the vendor_rejected events of the
\* blacklisted and the over-budget input vendors, in input order, each with
\* the site name of the call; an eligible vendor leaves none.
C13_RejectionEvents ==
    FilterDone =>
        /\ Len(audit) = Len(ret.value.rejected) + Len(ret.value.over_budget)
        /\ audit = [i \in 1..Len(NotPassing) |-> RejectionEvent(NotPassing[i])]
        /\ call.vendors = <<>> => audit = <<>>

\* A list with an eligible vendor between a blacklisted and an over-budget
\* one has left two events, the blacklist rejection first.
C13_Witness ==
    /\ FilterDone
    /\ Len(call.vendors) = 3
    /\ Len(ret.value.eligible) = 1
    /\ ret.value.eligible[1] = call.vendors[2]
    /\ Len(audit) = 2
    /\ audit[1].details.reason = "Blacklisted for this site"
    /\ audit[2].details.reason = "exceeds budget"

\* The input vendors that pass the blacklist and not the budget, in input
\* order.
OverBudgetInput ==
    SelectSeq(call.vendors,
              LAMBDA v : ~IsBlacklisted(v, call.blacklist)
                         /\ VPrice(v) > call.budget)

RaceDone == procs # <<>> /\ \A p \in DOMAIN procs : procs[p].pc = "done"

\* Both calls read the store before either wrote it.
BothReadFirst == \A p \in DOMAIN procs : procs[p].seen = 0

\* The store s shows the effect of the call c: the rules under the trimmed
\* site name, or the order in the orders list.
HasEffect(c, s) ==
    IF c.op = "store_site_rules"
    THEN Get(s, Strip(c.site_name), NoRules) = RulesOf(c)
    ELSE \E i \in 1..Len(OrdersOf(s)) :
             OrdersOf(s)[i] =
                 OrderRecord(c, IF c.op = "place_order" THEN "confirmed"
                                ELSE "confirmed_with_approval")

Succeeded(r) == r.marker \in {"Rules stored", "ORDER_CONFIRMED"}

\* C15: when two calls that change the store have both returned, both have
\* returned success; if both read the store before either wrote it, the
\* effect of the one that wrote first is missing from the store and the
\* effect of the other is there; if one read after the other had written,
\* both effects are there.
C15_LostUpdate ==
    RaceDone =>
        /\ \A p \in DOMAIN procs : Succeeded(procs[p].ret)
        /\ BothReadFirst =>
              /\ \E p \in DOMAIN procs : ~HasEffect(procs[p].call, store)
              /\ \E p \in DOMAIN procs : HasEffect(procs[p].call, store)
        /\ ~BothReadFirst =>
              \A p \in DOMAIN procs : HasEffect(procs[p].call, store)

\* A place_order call and a store_site_rules call have both read the store
\* before either wrote, both have returned success, and the saved order is
\* missing from the store that holds the new rules.
C15_Witness ==
    /\ RaceDone
    /\ BothReadFirst
    /\ procs[1].call.op = "place_order"
    /\ procs[2].call.op = "store_site_rules"
    /\ Succeeded(procs[1].ret) /\ Succeeded(procs[2].ret)
    /\ OrdersOf(store) = <<>>
    /\ HasEffect(procs[2].call, store)
    /\ \E i \in 1..Len(audit) : audit[i].event_type = "order_placed"

\* The call c, made on the store s, gets as far as its write_json: the site
\* name is not blank; the price is within the limit; the value read under
\* "orders" is a list, so that the append before the write succeeds.
WriteReached(c, s) ==
    CASE c.op = "store_site_rules" -> Strip(c.site_name) # <<>>
      [] c.op = "place_order" ->
            /\ c.price <= c.approval_limit
            /\ Get(ReadJson(s, c.io.read), OrdersKey, ListValue(<<>>)).type = "list"
      [] c.op = "confirm_order" ->
            Get(ReadJson(s, c.io.read), OrdersKey, ListValue(<<>>)).type = "list"
      [] OTHER -> FALSE

\* C16: when the store write of a store_site_rules, place_order or
\* confirm_order call fails, the call returns (it does not raise) a result
\* marked Error, "saving rules" or "saving order", that carries the cause of
\* the failure, and appends no rules_stored and no order_placed event.
C16_WriteFailure ==
    [][(WriteReached(call', store) /\ ~call'.io.write) =>
          /\ ret'.marker = "Error"
          /\ ret'.error = IF call'.op = "store_site_rules"
                          THEN "saving rules" ELSE "saving order"
          /\ ret'.cause = call'.io.cause
          /\ IsPrefix(audit, audit')
          /\ \A i \in 1..Len(Appended) :
                Appended[i].event_type \notin {"rules_stored", "order_placed"}]_vars

\* The write of a confirm_order call has failed in json.dump on a store that
\* holds rules and an order: the call has returned the error, and the audit
\* trail is as it was.
C16_Witness ==
    /\ call.op = "confirm_order"
    /\ ~call.io.write
    /\ ret.marker = "Error"
    /\ ret.cause = "dump"
    /\ audit = OrderPlaced.audit

\* What the call c does to the files st and what it returns.
Outcome(c, st) ==
    CASE c.op = "store_site_rules" ->
            StoreSiteRules(st, c.site_name, c.approval_limit,
                           c.vendor_blacklist, c.io)
      [] c.op = "retrieve_site_rules" -> RetrieveSiteRules(st, c.site_name, c.io)
      [] c.op = "fetch_vendors" -> FetchVendors(st, c.material, c.io)
      [] c.op = "filter_vendors" ->
            FilterVendors(st, c.vendors, c.blacklist, c.budget, c.site_name, c.io)
      [] c.op = "place_order" ->
            PlaceOrder(st, c.vendor_name, c.price, c.quantity, c.material,
                       c.site_name, c.approval_limit, c.io)
      [] c.op = "confirm_order" ->
            ConfirmOrder(st, c.vendor_name, c.price, c.quantity, c.material,
                         c.site_name, c.io)

\* The call c with every audit append succeeding.
AuditWorking(c) == [c EXCEPT !.io.auditFail = {}]

\* a is b with some of its elements left out.
RECURSIVE IsSubsequence(_, _)
IsSubsequence(a, b) ==
    IF a = <<>> THEN TRUE
    ELSE IF b = <<>> THEN FALSE
    ELSE IF Head(a) = Head(b) THEN IsSubsequence(Tail(a), Tail(b))
    ELSE IsSubsequence(a, Tail(b))

\* C17: a call returns the same result and leaves the same store whether its
\* audit appends fail or succeed; the audit trail keeps what it had and gets
\* the events of the call with every append succeeding, less the failed ones.
C17_AuditFailureHarmless ==
    [][call'.op # "none" =>
          LET r == Outcome(AuditWorking(call'), State)
          IN  /\ ret' = r.ret
              /\ store' = r.store
              /\ catalog' = catalog
              /\ IsPrefix(audit, audit')
              /\ IsSubsequence(audit', r.audit)
              /\ call'.io.auditFail = {} => audit' = r.audit]_vars

\* A place_order call both of whose audit appends failed has saved its order
\* and returned the confirmation; the audit trail shows nothing of it.
C17_Witness ==
    /\ call.op = "place_order"
    /\ call.io.auditFail = {1, 2}
    /\ ret.marker = "ORDER_CONFIRMED"
    /\ audit = RulesStored.audit
    /\ Len(OrdersOf(store)) = 1

\* C18: store_site_rules with a site name that is empty or all whitespace
\* returns the validation error (it does not raise) and leaves the store and
\* the audit trail as they were, in every environment.
C18_BlankSiteName ==
    [][(/\ call'.op = "store_site_rules"
        /\ \A i \in 1..Len(call'.site_name) : call'.site_name[i] \in Whitespace) =>
          /\ ret' = [marker |-> "Error", error |-> "validation"]
          /\ store' = store
          /\ audit' = audit]_vars

\* A whitespace-only site name has been refused on a store that holds rules
\* and an order, and the files are as they were.
C18_Witness ==
    /\ call.op = "store_site_rules"
    /\ call.site_name = <<" ", "\t">>
    /\ call.io = IoOk
    /\ ret = [marker |-> "Error", error |-> "validation"]
    /\ store = OrderPlaced.store
    /\ audit = OrderPlaced.audit

\* The store s, as the call c reads it, holds rules for the site key k: a
\* file that cannot be read is read as {}.
HoldsRules(s, c, k) ==
    /\ k \in DOMAIN ReadJson(s, c.io.read)
    /\ s[k].type = "dict"

\* C19: retrieve_site_rules returns the rules the store holds under the
\* trimmed site name iff the name is not blank and the store holds rules
\* there; for a blank name it returns the validation error; for another name
\* without rules it returns the not-found error, which names the trimmed
\* site; it leaves the store, the catalog and the audit trail as they were.
C19_Retrieve ==
    [][call'.op = "retrieve_site_rules" =>
          LET k == Strip(call'.site_name)
              has == k # <<>> /\ HoldsRules(store, call', k)
          IN  /\ ret'.marker = "rules" <=> has
              /\ has => ret'.value =
                            [approval_limit |-> store[k].approval_limit,
                             vendor_blacklist |-> store[k].vendor_blacklist]
              /\ k = <<>> => ret' = [marker |-> "error", error |-> "validation"]
              /\ (k # <<>> /\ ~has) =>
                    ret' = [marker |-> "error", error |-> "not_found",
                            site |-> k]
              /\ store' = store
              /\ catalog' = catalog
              /\ audit' = audit]_vars

\* Rules stored under "s" have been retrieved by a padded name, from a store
\* that holds an order as well.
C19_Witness ==
    /\ call.op = "retrieve_site_rules"
    /\ call.site_name = <<" ", "s", "\t">>
    /\ ret.marker = "rules"
    /\ ret.value = [approval_limit |-> 100,
                    vendor_blacklist |-> << <<"B">>, <<"a">> >>]
    /\ Len(OrdersOf(store)) = 1

\* The vendors of the catalog, none when the file has no "vendors".
AllVendors == IF "vendors" \in DOMAIN catalog THEN catalog.vendors ELSE <<>>

\* The catalog vendors whose category, trimmed and lower-cased, is the
\* material m trimmed and lower-cased, in catalog order (a vendor without a
\* category counts as one of the empty category).
OfMaterial(m) ==
    SelectSeq(AllVendors,
              LAMBDA v : Lower(Strip(VCategory(v, <<>>))) = Lower(Strip(m)))

\* C20: fetch_vendors returns, in catalog order, the catalog vendors whose
\* category equals the material, both trimmed and lower-cased; with no
\* match it returns the empty sequence and appends one event that lists the
\* categories of the catalog, with a match it appends none; it leaves the
\* store and the catalog as they were.
C20_FetchVendors ==
    [][call'.op = "fetch_vendors" =>
          /\ ret' = [marker |-> "vendors", value |-> OfMaterial(call'.material)]
          /\ IsPrefix(audit, audit')
          /\ OfMaterial(call'.material) # <<>> => audit' = audit
          /\ OfMaterial(call'.material) = <<>> =>
                /\ Len(Appended) = 1
                /\ Appended[1].event_type = "vendor_rejected"
                /\ Appended[1].details.available_categories =
                      {VCategory(AllVendors[i], UnknownCategory) :
                          i \in 1..Len(AllVendors)}
          /\ store' = store
          /\ catalog' = catalog]_vars

\* The catalog file gives fetch_vendors no vendors: it cannot be read, is no
\* JSON object, or has no "vendors".
NoVendorsFile(file) == IsFaulty(file) \/ "vendors" \notin DOMAIN file

\* C21: on a catalog file that cannot be read or is malformed, fetch_vendors
\* returns the empty sequence (it does not raise) and appends the one
\* vendor_rejected event of a material without vendors, with the material it
\* was asked for.
C21_CatalogFailure ==
    [][(call'.op = "fetch_vendors" /\ NoVendorsFile(catalog)) =>
          /\ ret' = [marker |-> "vendors", value |-> <<>>]
          /\ IsPrefix(audit, audit')
          /\ Len(Appended) = 1
          /\ Appended[1].event_type = "vendor_rejected"
          /\ Appended[1].site_name = <<>>
          /\ Appended[1].details.reason = "No vendors found for material"
          /\ Appended[1].details.material = call'.material
          /\ store' = store]_vars

\* The event types log_decision documents.
EventTypes ==
    {"rules_stored", "vendor_rejected", "vendor_selected",
     "approval_requested", "order_placed"}

\* C22: every tool call leaves the audit trail it found as a prefix of the
\* trail it leaves (no earlier event is rewritten, moved or removed), and
\* every event it appends has one of the five event types.
C22_AppendOnly ==
    [][/\ IsPrefix(audit, audit')
       /\ \A i \in 1..Len(Appended) : Appended[i].event_type \in EventTypes]_vars

\* A third call has appended two events behind the events of two earlier
\* calls of other kinds, and the trail holds three event types.
C22_Witness ==
    /\ ncalls = 3
    /\ call.op = "place_order"
    /\ Len(audit) >= 4
    /\ audit[1].event_type = "rules_stored"
    /\ audit[2].event_type = "vendor_rejected"
    /\ audit[Len(audit) - 1].event_type = "vendor_selected"
    /\ audit[Len(audit)].event_type \in {"approval_requested", "order_placed"}

\* The three texts a result of place_order or confirm_order begins with.
MarkerTexts ==
    {<<"O", "R", "D", "E", "R", "_", "C", "O", "N", "F", "I", "R", "M", "E", "D">>,
     <<"A", "P", "P", "R", "O", "V", "A", "L", "_", "R", "E", "Q", "U", "I", "R",
       "E", "D">>,
     <<"E", "r", "r", "o", "r">>}

\* The call has persisted its order: the store has changed and the last
\* record of the orders list is the order of the call.
OrderPersisted ==
    /\ store' # store
    /\ OrdersOf(store') # <<>>
    /\ OrdersOf(store')[Len(OrdersOf(store'))] =
          OrderRecord(call', IF call'.op = "place_order" THEN "confirmed"
                             ELSE "confirmed_with_approval")

\* C23: every result place_order or confirm_order returns begins with one of
\* three markers, none of which begins another: ORDER_CONFIRMED iff the call
\* has persisted its order; APPROVAL_REQUIRED iff it is a place_order call
\* with a price above the limit, and then the block states the vendor, the
\* cost, the limit and the overage and nothing is persisted; Error iff the
\* store write failed.
C23_Markers ==
    [][(call'.op \in {"place_order", "confirm_order"}
           /\ ret'.marker # "RAISED") =>
          /\ \A a, b \in MarkerTexts : a # b => ~IsPrefix(a, b)
          /\ ret'.marker \in {"ORDER_CONFIRMED", "APPROVAL_REQUIRED", "Error"}
          /\ ret'.marker = "ORDER_CONFIRMED" <=> OrderPersisted
          /\ ret'.marker = "APPROVAL_REQUIRED" <=>
                (call'.op = "place_order" /\ call'.price > call'.approval_limit)
          /\ ret'.marker = "APPROVAL_REQUIRED" =>
                /\ ret'.vendor = call'.vendor_name
                /\ ret'.cost = call'.price
                /\ ret'.limit = call'.approval_limit
                /\ ret'.overage = call'.price - call'.approval_limit
                /\ store' = store
          /\ ret'.marker = "Error" <=>
                (WriteReached(call', store) /\ ~call'.io.write)]_vars

\* The store write of a place_order call has failed at open on a store that
\* already holds the very order of the call: the result is marked Error,
\* and the store is as it was.
C23_Witness ==
    /\ call.op = "place_order"
    /\ ret.marker = "Error"
    /\ ret.cause = "open"
    /\ store = OrderPlaced.store
    /\ OrdersOf(store)[1] = OrderRecord(call, "confirmed")

\* The order command has run from its start to its end or to the first
\* prompt of the approval loop.
OrderCommandRan == cli.pc = "idle" /\ cli'.pc # "idle"

\* place_order was called for the vendor v at the price p with the limit the
\* store holds for the site of the command.
PlacedFor(v, p) ==
    /\ call'.op = "place_order"
    /\ call'.vendor_name = v
    /\ call'.price = p
    /\ call'.site_name = cli'.site
    /\ call'.approval_limit = store[cli'.site].approval_limit

\* C24: in the order pipeline, with an eligible vendor the first eligible one
\* is selected and place_order confirms and persists the order; with none
\* eligible and some vendor over budget, the over-budget vendor of the lowest
\* price, which the filter message names, is selected and place_order
\* escalates, persisting nothing; otherwise (every vendor blacklisted, no
\* rules, no vendors) place_order is not called and nothing is persisted.
C24_Pipeline ==
    [][OrderCommandRan =>
          LET f == cli'.filtered
          IN  /\ f.eligible # <<>> =>
                    /\ PlacedFor(VName(f.eligible[1]), VPrice(f.eligible[1]))
                    /\ ret'.marker = "ORDER_CONFIRMED"
                    /\ OrdersOf(store') =
                          Append(OrdersOf(store), OrderRecord(call', "confirmed"))
              /\ (f.eligible = <<>> /\ f.over_budget # <<>>) =>
                    /\ PlacedFor(f.message.vendor, f.message.price)
                    /\ \A i \in 1..Len(f.over_budget) :
                          call'.price <= f.over_budget[i].price
                    /\ ret'.marker = "APPROVAL_REQUIRED"
                    /\ store' = store
              /\ (f.eligible = <<>> /\ f.over_budget = <<>>) =>
                    /\ call'.op # "place_order"
                    /\ store' = store
                    /\ \A i \in 1..Len(Appended) :
                          Appended[i].event_type = "vendor_rejected"]_vars

\* The store s without the key k.
Without(s, k) == [x \in DOMAIN s \ {k} |-> s[x]]

\* The stores that differ from s at most in the rules stored for the site
\* key k: without rules for it, or with other rules (s itself when the key
\* holds something that is no rules).
RulesVariants(s, k) ==
    IF k \in DOMAIN s /\ s[k].type # "dict"
    THEN {s}
    ELSE {Without(s, k)}
            \cup {Put(s, k, RulesValue(r.approval_limit, r.vendor_blacklist)) :
                     r \in RuleSets}

\* C25: a place_order call returns the same result, logs the same events
\* and appends the same order on every store that differs from the one it
\* ran on only in the rules stored for its site (other rules, or none).
C25_IgnoresStoredRules ==
    [][call'.op = "place_order" =>
          \A alt \in RulesVariants(store, Strip(call'.site_name)) :
              LET r == PlaceOrder([store |-> alt, audit |-> audit,
                                   catalog |-> catalog],
                                  call'.vendor_name, call'.price,
                                  call'.quantity, call'.material,
                                  call'.site_name, call'.approval_limit,
                                  call'.io)
              IN  /\ r.ret = ret'
                  /\ r.audit = audit'
                  /\ Len(OrdersOf(r.store)) - Len(OrdersOf(alt))
                        = Len(OrdersOf(store')) - Len(OrdersOf(store))
                  /\ ret'.marker = "ORDER_CONFIRMED" =>
                        OrdersOf(r.store) = OrdersOf(store')]_vars

\* C26: a store_site_rules call that succeeds leaves every key of the store
\* other than the trimmed site name as it was (the rules of the other
\* sites), adds no other key, and leaves the orders list as it was.
C26_StoreFrame ==
    [][(call'.op = "store_site_rules" /\ ret'.marker = "Rules stored") =>
          LET k == Strip(call'.site_name)
          IN  /\ DOMAIN store' \ {k} = DOMAIN store \ {k}
              /\ \A x \in DOMAIN store \ {k} : store'[x] = store[x]
              /\ OrdersOf(store') = OrdersOf(store)]_vars

\* The order_placed events of the audit trail, in write order.
PlacedEvents == SelectSeq(audit, LAMBDA e : e.event_type = "order_placed")

\* The order_placed event of an order record.
PlacedEvent(o) ==
    [event_type |-> "order_placed", site_name |-> o.site_name,
     details |-> [vendor |-> o.vendor_name, price |-> o.price_inr,
                  quantity |-> o.quantity, material |-> o.material,
                  approval |-> IF o.status = "confirmed" THEN "auto"
                               ELSE "human"]]

\* C27: in a session from an empty store and an empty audit trail, without
\* I/O failure, the audit trail holds as many order_placed events as the
\* orders list holds orders, and the k-th event is the event of the k-th
\* order: its vendor, price, quantity, material and site, approval auto for
\* the status confirmed and human for confirmed_with_approval.
C27_EventsMatchOrders ==
    /\ Len(PlacedEvents) = Len(OrdersOf(store))
    /\ \A k \in 1..Len(OrdersOf(store)) :
          /\ OrdersOf(store)[k].status \in {"confirmed", "confirmed_with_approval"}
          /\ k <= Len(PlacedEvents) =>
                PlacedEvents[k] = PlacedEvent(OrdersOf(store)[k])

\* The trail log holds an event of the given type for the vendor v at the
\* price p on the site.
HasEvent(log, type, site, v, p) ==
    \E i \in 1..Len(log) :
        /\ log[i].event_type = type
        /\ log[i].site_name = site
        /\ log[i].details.vendor = v
        /\ log[i].details.price = p

\* C28: in the order flow of the offline CLI, every order that confirm_order
\* persists is preceded in the audit trail by a vendor_selected event and an
\* approval_requested event for the same vendor, price and site, also when
\* the order approved is the one of a next-cheapest vendor offered after a
\* rejection.
C28_HumanOrdersTraced ==
    [][(call'.op = "confirm_order" /\ ret'.marker = "ORDER_CONFIRMED") =>
          /\ HasEvent(audit, "vendor_selected", call'.site_name,
                      call'.vendor_name, call'.price)
          /\ HasEvent(audit, "approval_requested", call'.site_name,
                      call'.vendor_name, call'.price)]_vars

\* The same for the orders approved at the first prompt only.
C28_FirstOfferTraced ==
    [][(call'.op = "confirm_order" /\ ret'.marker = "ORDER_CONFIRMED"
           /\ Len(cli.offered) = 1) =>
          /\ HasEvent(audit, "vendor_selected", call'.site_name,
                      call'.vendor_name, call'.price)
          /\ HasEvent(audit, "approval_requested", call'.site_name,
                      call'.vendor_name, call'.price)]_vars

\* What the call leaves alone: place_order and confirm_order every key other
\* than "orders" and every order already in the list; store_site_rules every
\* key other than the trimmed site name.
KeepsPersisted ==
    IF call'.op = "store_site_rules"
    THEN \A x \in DOMAIN store \ {Strip(call'.site_name)} :
            x \in DOMAIN store' /\ store'[x] = store[x]
    ELSE /\ \A x \in DOMAIN store \ {OrdersKey} :
              x \in DOMAIN store' /\ store'[x] = store[x]
         /\ IsPrefix(OrdersOf(store), OrdersOf(store'))

\* C29: a place_order, confirm_order or store_site_rules call whose write
\* succeeds keeps the site rules and the orders persisted before it, also
\* when the read of the store before the write has failed.
C29_ReadFailureKeeps ==
    [][(call'.op \in {"place_order", "confirm_order", "store_site_rules"}
           /\ ret'.marker \in {"Rules stored", "ORDER_CONFIRMED"}) =>
          KeepsPersisted]_vars

\* The same for the calls whose read of the store has failed.
C29_AfterFailedRead ==
    [][(call'.op \in {"place_order", "confirm_order", "store_site_rules"}
           /\ ~call'.io.read
           /\ ret'.marker \in {"Rules stored", "ORDER_CONFIRMED"}) =>
          KeepsPersisted]_vars

\* The same for the calls whose read has succeeded, on a store without a
\* site named "orders" and for another site name than "orders".
C29_AfterRead ==
    [][(call'.op \in {"place_order", "confirm_order", "store_site_rules"}
           /\ call'.io.read
           /\ ret'.marker \in {"Rules stored", "ORDER_CONFIRMED"}
           /\ Strip(call'.site_name) # OrdersKey
           /\ store # OrdersSiteStored.store) => KeepsPersisted]_vars

\* The number of entries of the given vendor name and price.
Entries(entries, v, p) ==
    Cardinality({i \in 1..Len(entries) :
                    entries[i].vendor = v /\ entries[i].price = p})

\* The offers made so far: at most one per over-budget vendor, each an
\* over-budget vendor of the filter result (so neither blacklisted nor
\* eligible), in non-decreasing price order.
OffersInOrder ==
    /\ Len(cli.offered) <= Len(cli.filtered.over_budget)
    /\ \A i \in 1..Len(cli.offered) :
          /\ Entries(cli.filtered.over_budget, cli.offered[i].vendor,
                   cli.offered[i].price) > 0
          /\ cli.offered[i].price > cli.budget
          /\ Lower(Strip(cli.offered[i].vendor))
                 \notin BlacklistLower(store[cli.site].vendor_blacklist)
          /\ \A j \in 1..Len(cli.filtered.eligible) :
                VName(cli.filtered.eligible[j]) # cli.offered[i].vendor
    /\ \A i, j \in 1..Len(cli.offered) :
          i < j => cli.offered[i].price <= cli.offered[j].price

\* How the loop ends: with one confirm_order call, for the vendor and the
\* price of the last offer, or with every over-budget vendor of another name
\* than the first offered and rejected, no confirm_order call and no order.
LoopEnds ==
    /\ cli.confirms <= 1
    /\ cli.confirms = 1 =>
          /\ cli.pc = "done"
          /\ call.op = "confirm_order"
          /\ call.vendor_name = cli.offered[Len(cli.offered)].vendor
          /\ call.price = cli.offered[Len(cli.offered)].price
    /\ (cli.pc = "done" /\ cli.outcome = "rejected") =>
          /\ cli.confirms = 0
          /\ cli.remaining = <<>>
          /\ OrdersOf(store) = <<>>

\* The first approval ends the loop with a confirm_order call.
FirstApprovalConfirms ==
    (cli.pc = "prompt" /\ cli'.pc = "prompt") => cli'.confirms = cli.confirms

\* No vendor name is offered twice.
NoNameTwice ==
    \A i, j \in 1..Len(cli.offered) :
        i # j => cli.offered[i].vendor # cli.offered[j].vendor

\* No entry of the over-budget list is offered twice.
NoEntryTwice ==
    \A i \in 1..Len(cli.offered) :
        Entries(cli.offered, cli.offered[i].vendor, cli.offered[i].price)
            <= Entries(cli.filtered.over_budget, cli.offered[i].vendor,
                     cli.offered[i].price)

\* C30: the approval loop of the CLI ends for every sequence of answers:
\* after at most one prompt per over-budget vendor it has called
\* confirm_order once, on the first approval and for the vendor and price on
\* offer, or has run out of vendors and persisted nothing; the offers are in
\* non-decreasing price order, no vendor is offered twice, and no
\* blacklisted or eligible vendor is offered.
C30_ApprovalLoop ==
    /\ []((cli.pc \in {"prompt", "done"} /\ cli.offered # <<>>) =>
             (OffersInOrder /\ LoopEnds /\ NoNameTwice))
    /\ [][FirstApprovalConfirms]_vars
    /\ <>(cli.pc = "done")

\* The same with the offers counted by entry of the over-budget list.
C30_LoopByEntry ==
    /\ []((cli.pc \in {"prompt", "done"} /\ cli.offered # <<>>) =>
             (OffersInOrder /\ LoopEnds /\ NoEntryTwice))
    /\ [][FirstApprovalConfirms]_vars
    /\ <>(cli.pc = "done")

====
